---- MODULE Spec2Model ----
(***************************************************************************)
(* godkv: a replicated key-value store.  Each node keeps an in-memory map  *)
(* backed by a write-ahead log and snapshots (internal/store), versions    *)
(* values with vector clocks, and coordinates quorum writes, reads and     *)
(* tombstoned deletes over its peers (internal/cluster/replicator.go).     *)
(***************************************************************************)
EXTENDS Integers, Sequences, FiniteSets, TLC

VARIABLES
    \* ---- the cluster (replicator.go, membership.go, api handlers) ----
    store,      \* store[n]: node n's Store.data entry for the key (or NoValue)
    members,    \* members[n]: the ids in node n's Membership.nodes / ring
    cfg,        \* the effective [N, W, R] handed to NewReplicator
    op,         \* the client request being served (ReplicateWrite, CoordinateRead, DeleteReplicated)
    bg,         \* replicate sends still running in sender goroutines after their caller returned
    nops,       \* client requests issued so far
    acked,      \* the Values returned by successful ReplicateWrite calls since the last delete
    deleted,    \* a DeleteReplicated has returned success and no write followed
    \* ---- shared ----
    now,        \* the wall clock read by time.Now()
    \* ---- one node's storage engine (store.go, wal.go) ----
    mem,        \* Store.data
    wal,        \* the lines of wal.log
    snapFile,   \* snapshot.json (NoFile when absent)
    tmpFile,    \* snapshot.json.tmp
    snapPc,     \* snapPc[t]: where Snapshot caller t stands
    snapCopy,   \* snapCopy[t]: the map copied by Snapshot caller t under RLock
    pending,    \* the mutation that holds Store.mu between its WAL append and its map assignment
    opened,     \* the Store returned by store.New is usable ("open"), or New failed ("failed")
    nmut,       \* mutating calls issued so far
    call,       \* the latest Put / Delete / ApplyRemote call on the Store and what it returns
    snapRet,    \* snapRet[t]: what the latest Snapshot call of caller t returned
    \* ---- vector clocks in isolation (vector_clock.go) ----
    vcA,        \* a VectorClock: the receiver of the calls
    vcB,        \* a VectorClock: the argument of the calls
    vcRes,      \* the latest VectorClock call with its arguments and its result
    \* ---- hash rings in isolation (membership.go, type Ring) ----
    ringA,      \* r.ring of one Ring: position -> owning node id
    onA,        \* the ids added to that Ring and not removed since
    ringB,      \* r.ring of a second Ring with a history of its own
    onB,        \* the ids added to the second Ring and not removed since
    ringRes,    \* the latest call on the first Ring with its arguments and its result
    rosterA,    \* m.nodes of a Membership over the first Ring: node id -> Node
    \* ---- the replicate senders of one fan-out in isolation (replicator.go) ----
    sender,     \* sender[p]: where the sendReplicateRequest to peer p stands
    sendAcks,   \* acks of the ReplicateWrite loop that receives the senders' results
    \* ---- main's serving and shutdown path over the storage engine (main.go) ----
    mainPc,     \* where main stands: serving, signalled, shutdown, exited
    inflight,   \* the keys of the PUT requests the server accepted and has not run yet
    \* ---- read repair racing writes (replicator.go) ----
    delivered,  \* the latest read-repair send that arrived and what its peer held before
    \* ---- conflict resolution in isolation (replicator.go reconcile, store.go ApplyRemote) ----
    recon,      \* a list of collected responses and what reconcile / ApplyRemote made of it
    \* ---- one fan-out with its result channel (replicator.go ReplicateWrite, CoordinateRead) ----
    fan         \* the caller's wait loop, the buffered channel and the per-peer goroutines

vars == <<store, members, cfg, op, bg, nops, acked, deleted, now,
          mem, wal, snapFile, tmpFile, snapPc, snapCopy, pending, opened, nmut,
          call, snapRet, vcA, vcB, vcRes, ringA, onA, ringB, onB, ringRes,
          rosterA, sender, sendAcks, mainPc, inflight, delivered, recon, fan>>

clockVars == <<vcA, vcB, vcRes>>
ringVars == <<ringA, onA, ringB, onB, ringRes, rosterA>>
\* what the cluster and the storage engine never touch
sendVars == <<sender, sendAcks>>
mainVars == <<mainPc, inflight>>
isolatedVars == <<clockVars, ringVars, sendVars, mainVars, delivered, recon, fan>>
clusterVars == <<store, members, cfg, op, bg, nops, acked, deleted>>
engineVars == <<mem, wal, snapFile, tmpFile, snapPc, snapCopy, pending, opened, nmut,
                call, snapRet>>

----------------------------------------------------------------------------
(* Bounds of the model *)

\* client requests (put / get / delete) issued in one behaviour of the cluster
MaxOps == 3
\* mutating Store calls issued in one behaviour of the storage engine
MaxMut == 3
\* mutating Store calls in one behaviour of SpecStore, where Snapshot callers interleave
MaxStoreMut == 2

----------------------------------------------------------------------------
(* Node ids, keys, payloads *)

Nodes == {"n1", "n2", "n3"}

\* The one key the cluster requests are about.
TheKey == "k"

\* Keys of the single-node storage engine.
Keys == {"a", "b"}

\* bufio.MaxScanTokenSize: the longest line bufio.Scanner (wal.go readAll) accepts.
MaxScanTokenSize == 65536

\* A payload whose WAL line is longer than bufio.Scanner's token limit.
LongData == "long"

ShortData == {"1", "2"}

\* len(data) of a payload
DataLen(d) == IF d = LongData THEN MaxScanTokenSize ELSE 1

----------------------------------------------------------------------------
(* Vector clocks (internal/store/vector_clock.go) *)

Before == "Before"
After == "After"
Equal == "Equal"
ConcurrentClocks == "Concurrent"

\* make(VectorClock)
EmptyClock == [n \in {} |-> 0]

\* vc[node] of a Go map: the zero value when the key is absent
ClockGet(vc, node) == IF node \in DOMAIN vc THEN vc[node] ELSE 0

\* a faulty Increment: the counter is set to 1 whatever it was
IncrementFromZero(vc, nodeID) ==
    [n \in (DOMAIN vc) \cup {nodeID} |-> IF n = nodeID THEN 1 ELSE vc[n]]

\* vc[nodeID]++
Increment(vc, nodeID) ==
    [n \in (DOMAIN vc) \cup {nodeID} |->
        IF n = nodeID THEN ClockGet(vc, nodeID) + 1 ELSE vc[n]]

\* vc.Copy()
Copy(vc) == [n \in DOMAIN vc |-> vc[n]]

\* vc.Merge(other): a copy of vc in which every counter that other has larger
\* is raised to other's
Merge(vc, other) ==
    LET merged == Copy(vc)
        raised == { n \in DOMAIN other : other[n] > ClockGet(merged, n) }
    IN  [n \in (DOMAIN merged) \cup raised |-> IF n \in raised THEN other[n] ELSE merged[n]]

\* a faulty Compare: the counters that only other has are not looked at
CompareOwnKeysOnly(vc, other) ==
    LET vcDominates == \E n \in DOMAIN vc : vc[n] > ClockGet(other, n)
        otherDominates == \E n \in DOMAIN vc : vc[n] < ClockGet(other, n)
    IN  IF ~vcDominates /\ ~otherDominates THEN Equal
        ELSE IF vcDominates /\ ~otherDominates THEN After
        ELSE IF ~vcDominates /\ otherDominates THEN Before
        ELSE ConcurrentClocks

\* vc.Compare(other)
Compare(vc, other) ==
    LET vcDominates == \E n \in DOMAIN vc : vc[n] > ClockGet(other, n)
        otherDominates ==
            \/ \E n \in DOMAIN vc : vc[n] < ClockGet(other, n)
            \/ \E n \in DOMAIN other : n \notin DOMAIN vc /\ other[n] > 0
    IN  IF ~vcDominates /\ ~otherDominates THEN Equal
        ELSE IF vcDominates /\ ~otherDominates THEN After
        ELSE IF ~vcDominates /\ otherDominates THEN Before
        ELSE ConcurrentClocks

\* no VectorClock call was made in isolation
NoClockCall == [fn |-> "none"]

IdleClocks ==
    /\ vcA = EmptyClock
    /\ vcB = EmptyClock
    /\ vcRes = NoClockCall

----------------------------------------------------------------------------
(* Values and the Store's mutations (internal/store/store.go) *)

\* the absent map entry / a nil *store.Value
NoValue == [absent |-> TRUE]

\* a nil VectorClock argument
NilClock == [nil |-> TRUE]

IsValue(v) == v # NoValue

\* Store.Put: the Value built from the caller's clock (nil: a fresh one)
PutValue(nodeID, data, clock, t) ==
    [data |-> data,
     clock |-> Increment(IF clock = NilClock THEN EmptyClock ELSE clock, nodeID),
     tombstone |-> FALSE,
     updatedAt |-> t]

\* Store.Delete: the tombstone built over the existing entry's clock
DeleteValue(nodeID, existing, t) ==
    [data |-> "",
     clock |-> Increment(IF IsValue(existing) THEN Copy(existing.clock) ELSE EmptyClock, nodeID),
     tombstone |-> TRUE,
     updatedAt |-> t]

\* a faulty arbitration: every incoming Value replaces the existing entry
ApplyRemoteAcceptsAll(existing, incoming) == TRUE

\* Store.ApplyRemote: whether incoming replaces the existing entry
ApplyRemoteAccepts(existing, incoming) ==
    IF IsValue(existing)
    THEN LET rel == Compare(incoming.clock, existing.clock)
         IN  CASE rel = ConcurrentClocks -> ~(incoming.updatedAt < existing.updatedAt)
               [] rel = Before -> FALSE
               [] OTHER -> TRUE
    ELSE TRUE

\* Store.ApplyRemote: the entry kept for the key
ApplyRemote(existing, incoming) ==
    IF ApplyRemoteAccepts(existing, incoming) THEN incoming ELSE existing

\* a faulty InternalReplicate that answers success whatever ApplyRemote returned
ReplicateStatusAlwaysOk(result) == "204"

\* Handler.InternalReplicate: 500 when ApplyRemote returned an error, 204 No
\* Content otherwise, whether the value was applied or discarded
ReplicateStatus(result) == IF result = "wal_error" THEN "500" ELSE "204"

----------------------------------------------------------------------------
(* The write-ahead log and the snapshot file (wal.go, store.go) *)

\* the node id of the single-node storage engine
EngineId == "n1"

NoFile == [nofile |-> TRUE]

NoPending == [nopending |-> TRUE]

NoCall == [name |-> "none"]

\* a call on the Store with its arguments and its result: "ok", "wal_error"
\* (the append failed) or "discarded" (ApplyRemote returned applied = false)
Call(name, key, value, result) ==
    [name |-> name, key |-> key, value |-> value, result |-> result]

EmptyMap == [k \in Keys |-> NoValue]

\* walEntry
WalEntry(opname, key, value) == [op |-> opname, key |-> key, value |-> value]

\* bufio.Scanner gives up on a line that does not fit its buffer (ErrTooLong)
TooLong(line) == DataLen(line.value.data) >= MaxScanTokenSize

\* WAL.readAll: the entries scanned before the scanner stops, and scanner.Err()
RECURSIVE ReadAllFrom(_, _, _)
ReadAllFrom(lines, i, entries) ==
    IF i > Len(lines) THEN [entries |-> entries, err |-> FALSE]
    ELSE IF TooLong(lines[i]) THEN [entries |-> entries, err |-> TRUE]
    ELSE ReadAllFrom(lines, i + 1, Append(entries, lines[i]))

ReadAll(lines) == ReadAllFrom(lines, 1, << >>)

\* Store.replayWAL's loop: s.data[e.Key] = e.Value for each entry in order
RECURSIVE ApplyEntries(_, _, _)
ApplyEntries(data, entries, i) ==
    IF i > Len(entries) THEN data
    ELSE ApplyEntries([data EXCEPT ![entries[i].key] = entries[i].value], entries, i + 1)

\* Store.loadSnapshot: the decoded snapshot, or the empty map when there is none
LoadSnapshot(file) == IF file = NoFile THEN EmptyMap ELSE file

\* store.New: snapshot first, then WAL replay; fails when readAll reports an error
New(file, lines) ==
    LET r == ReadAll(lines)
    IN  IF r.err THEN [ok |-> FALSE, data |-> EmptyMap]
        ELSE [ok |-> TRUE, data |-> ApplyEntries(LoadSnapshot(file), r.entries, 1)]

----------------------------------------------------------------------------
(* One node's storage engine: Put / Delete / ApplyRemote, Snapshot, restart *)

\* the callers of Store.Snapshot: the 60 s ticker goroutine and main's shutdown path
Snapshotters == {"ticker", "shutdown"}

\* Values a peer may replicate to this node
RemoteValues ==
    { [data |-> "2", clock |-> [n \in {"n2"} |-> 1], tombstone |-> FALSE, updatedAt |-> t] :
        t \in {0, 1} }

InitEngine ==
    /\ mem = EmptyMap
    /\ wal = << >>
    /\ snapFile = NoFile
    /\ tmpFile = NoFile
    /\ snapPc = [t \in Snapshotters |-> "idle"]
    /\ snapCopy = [t \in Snapshotters |-> EmptyMap]
    /\ pending = NoPending
    /\ opened = "open"
    /\ nmut = 0
    /\ call = NoCall
    /\ snapRet = [t \in Snapshotters |-> "none"]

\* a faulty mutating call: the map is assigned although the append failed
AppendStepIgnoringError(name, entry, walOk) ==
    /\ opened = "open"
    /\ pending = NoPending
    /\ nmut < MaxMut
    /\ nmut' = nmut + 1
    /\ now' = now + 1
    /\ wal' = IF walOk THEN Append(wal, entry) ELSE wal
    /\ pending' = entry
    /\ call' = Call(name, entry.key, entry.value, IF walOk THEN "ok" ELSE "wal_error")
    /\ UNCHANGED <<mem, snapFile, tmpFile, snapPc, snapCopy, opened, snapRet>>

\* a mutating call takes Store.mu and appends to the WAL (walOk: Write and Sync succeed)
AppendStep(name, entry, walOk) ==
    /\ opened = "open"
    /\ pending = NoPending
    /\ nmut < MaxMut
    /\ nmut' = nmut + 1
    /\ now' = now + 1
    /\ IF walOk
       THEN /\ wal' = Append(wal, entry)
            /\ pending' = entry
            /\ call' = Call(name, entry.key, entry.value, "ok")
       ELSE /\ UNCHANGED <<wal, pending>>
            /\ call' = Call(name, entry.key, entry.value, "wal_error")
    /\ UNCHANGED <<mem, snapFile, tmpFile, snapPc, snapCopy, opened, snapRet>>

\* Store.Put up to the WAL append
Put(key, data, walOk) ==
    AppendStep("Put", WalEntry("PUT", key, PutValue(EngineId, data, NilClock, now)), walOk)

\* Store.Delete up to the WAL append
Delete(key, walOk) ==
    AppendStep("Delete", WalEntry("DELETE", key, DeleteValue(EngineId, mem[key], now)), walOk)

\* a faulty ApplyRemote that assigns an accepted value without logging it
StoreApplyRemoteUnlogged(key, incoming, walOk) ==
    /\ opened = "open"
    /\ pending = NoPending
    /\ nmut < MaxMut
    /\ nmut' = nmut + 1
    /\ now' = now + 1
    /\ mem' = [mem EXCEPT ![key] = ApplyRemote(mem[key], incoming)]
    /\ call' = Call("ApplyRemote", key, incoming,
                    IF ApplyRemoteAccepts(mem[key], incoming) THEN "ok" ELSE "discarded")
    /\ UNCHANGED <<wal, pending, snapFile, tmpFile, snapPc, snapCopy, opened, snapRet>>

\* Store.ApplyRemote up to the WAL append; a discarded value returns before it
StoreApplyRemote(key, incoming, walOk) ==
    IF ApplyRemoteAccepts(mem[key], incoming)
    THEN AppendStep("ApplyRemote", WalEntry("PUT", key, incoming), walOk)
    ELSE /\ opened = "open"
         /\ pending = NoPending
         /\ nmut < MaxMut
         /\ nmut' = nmut + 1
         /\ now' = now + 1
         /\ call' = Call("ApplyRemote", key, incoming, "discarded")
         /\ UNCHANGED <<mem, wal, pending, snapFile, tmpFile, snapPc, snapCopy, opened,
                        snapRet>>

\* s.data[key] = v, then the deferred Unlock
Assign ==
    /\ opened = "open"
    /\ pending # NoPending
    /\ mem' = [mem EXCEPT ![pending.key] = pending.value]
    /\ pending' = NoPending
    /\ UNCHANGED <<wal, snapFile, tmpFile, snapPc, snapCopy, opened, nmut, now, call,
                   snapRet>>

\* Store.Snapshot: the copy of s.data under RLock
SnapshotCopy(t) ==
    /\ opened = "open"
    /\ pending = NoPending
    /\ snapPc[t] = "idle"
    /\ snapCopy' = [snapCopy EXCEPT ![t] = mem]
    /\ snapPc' = [snapPc EXCEPT ![t] = "create"]
    /\ snapRet' = [snapRet EXCEPT ![t] = "none"]
    /\ UNCHANGED <<mem, wal, snapFile, tmpFile, pending, opened, nmut, now, call>>

\* Store.Snapshot: os.Create(tmp) and Encode; on failure the call returns
SnapshotWrite(t, ok) ==
    /\ opened = "open"
    /\ snapPc[t] = "create"
    /\ IF ok
       THEN /\ tmpFile' = snapCopy[t]
            /\ snapPc' = [snapPc EXCEPT ![t] = "rename"]
            /\ UNCHANGED snapRet
       ELSE /\ UNCHANGED tmpFile
            /\ snapPc' = [snapPc EXCEPT ![t] = "idle"]
            /\ snapRet' = [snapRet EXCEPT ![t] = "error"]
    /\ UNCHANGED <<mem, wal, snapFile, snapCopy, pending, opened, nmut, now, call>>

\* a faulty Snapshot: the error of os.Rename is ignored
SnapshotRenameIgnoringError(t) ==
    /\ opened = "open"
    /\ snapPc[t] = "rename"
    /\ IF tmpFile # NoFile
       THEN /\ snapFile' = tmpFile
            /\ tmpFile' = NoFile
       ELSE UNCHANGED <<snapFile, tmpFile>>
    /\ snapPc' = [snapPc EXCEPT ![t] = "truncate"]
    /\ UNCHANGED <<mem, wal, snapCopy, pending, opened, nmut, now, call, snapRet>>

\* Store.Snapshot: os.Rename(tmp, path); fails when tmp is gone
SnapshotRename(t) ==
    /\ opened = "open"
    /\ snapPc[t] = "rename"
    /\ IF tmpFile # NoFile
       THEN /\ snapFile' = tmpFile
            /\ tmpFile' = NoFile
            /\ snapPc' = [snapPc EXCEPT ![t] = "truncate"]
            /\ UNCHANGED snapRet
       ELSE /\ UNCHANGED <<snapFile, tmpFile>>
            /\ snapPc' = [snapPc EXCEPT ![t] = "idle"]
            /\ snapRet' = [snapRet EXCEPT ![t] = "error"]
    /\ UNCHANGED <<mem, wal, snapCopy, pending, opened, nmut, now, call>>

\* Store.Snapshot: s.wal.truncate()
SnapshotTruncate(t) ==
    /\ opened = "open"
    /\ snapPc[t] = "truncate"
    /\ wal' = << >>
    /\ snapPc' = [snapPc EXCEPT ![t] = "idle"]
    /\ snapRet' = [snapRet EXCEPT ![t] = "ok"]
    /\ UNCHANGED <<mem, snapFile, tmpFile, snapCopy, pending, opened, nmut, now, call>>

\* the process is killed and started again: store.New on the same data directory
Restart ==
    /\ opened = "open"
    /\ LET r == New(snapFile, wal)
       IN  /\ opened' = IF r.ok THEN "open" ELSE "failed"
           /\ mem' = r.data
    /\ pending' = NoPending
    /\ snapPc' = [t \in Snapshotters |-> "idle"]
    /\ snapCopy' = [t \in Snapshotters |-> EmptyMap]
    /\ call' = NoCall
    /\ snapRet' = [t \in Snapshotters |-> "none"]
    /\ UNCHANGED <<wal, snapFile, tmpFile, nmut, now>>

\* no read-repair send has arrived
NoDelivery == [none |-> TRUE]

\* no call in progress, no goroutine started
NoFanOut ==
    [kind |-> "none", pc |-> "idle", task |-> [p \in Nodes |-> [pc |-> "none", err |-> FALSE]],
     results |-> << >>, cap |-> 0, required |-> 0, acks |-> 0, remaining |-> 0,
     collected |-> 0, ret |-> ""]

\* no response collected, nothing called
NoReconcile ==
    [responses |-> << >>, called |-> FALSE, winner |-> NoValue, staleNodes |-> << >>,
     applied |-> FALSE, stored |-> NoValue]

\* main serves; no request was accepted
IdleMain ==
    /\ mainPc = "serving"
    /\ inflight = {}

----------------------------------------------------------------------------
(* The hash ring and the membership (internal/cluster/membership.go) *)

\* virtual positions per physical node (NewMembership(nodes, 150) in main.go, scaled down)
VNodes == 2

\* Ring.hash: the first 32 bits of SHA-256, here a fixed table over the strings
\* the model hashes: "<id>#<i>" for the virtual nodes and the key itself
\* The table has one collision, as 32-bit prefixes have: "n4#0" falls on the
\* position of "n1#1" (so do "node28#73" and "node139#61", both at 1868893502).
\* n4 is a node of the Rings in isolation only.
HashVNode(id, i) ==
    CASE id = "n1" /\ i = 0 -> 10
      [] id = "n1" /\ i = 1 -> 70
      [] id = "n2" /\ i = 0 -> 30
      [] id = "n2" /\ i = 1 -> 90
      [] id = "n3" /\ i = 0 -> 50
      [] id = "n3" /\ i = 1 -> 20
      [] id = "n4" /\ i = 0 -> 70
      [] id = "n4" /\ i = 1 -> 40
      [] OTHER -> 0

HashKey(key) ==
    CASE key = "k" -> 25
      [] key = "a" -> 60
      [] key = "b" -> 95
      [] OTHER -> 0

\* make(map[uint32]string)
EmptyRing == [p \in {} |-> ""]

\* Ring.AddNode's loop, from virtual node i on: r.ring[pos] = nodeID
RECURSIVE AddFrom(_, _, _)
AddFrom(ring, nodeID, i) ==
    IF i >= VNodes THEN ring
    ELSE LET pos == HashVNode(nodeID, i)
         IN  AddFrom([p \in (DOMAIN ring) \cup {pos} |-> IF p = pos THEN nodeID ELSE ring[p]],
                     nodeID, i + 1)

\* Ring.AddNode
AddNode(ring, nodeID) == AddFrom(ring, nodeID, 0)

\* Ring.RemoveNode: delete(r.ring, pos) for each of the node's virtual positions
RemoveNode(ring, nodeID) ==
    LET gone == { HashVNode(nodeID, i) : i \in 0..(VNodes - 1) }
    IN  [p \in (DOMAIN ring) \ gone |-> ring[p]]

\* Ring.rebuild: the keys of r.ring in ascending order
SortedOf(S) ==
    [i \in 1..Cardinality(S) |-> CHOOSE x \in S : Cardinality({ y \in S : y < x }) = i - 1]

Sorted(ring) == SortedOf(DOMAIN ring)

\* a faulty search that does not wrap: past the largest position it stays on
\* the last index
SearchWithoutWrap(sorted, pos) ==
    LET hits == { i \in 1..Len(sorted) : sorted[i] >= pos }
    IN  IF hits = {} THEN Len(sorted) ELSE CHOOSE i \in hits : \A j \in hits : i <= j

\* Ring.search: the least index with sorted[i] >= pos, wrapping to the first
Search(sorted, pos) ==
    LET hits == { i \in 1..Len(sorted) : sorted[i] >= pos }
    IN  IF hits = {} THEN 1 ELSE CHOOSE i \in hits : \A j \in hits : i <= j

\* Ring.GetNodes's loop: walk clockwise collecting distinct node ids
RECURSIVE WalkRing(_, _, _, _, _, _)
WalkRing(ring, sorted, idx, i, n, nodes) ==
    IF i >= Len(sorted) \/ Len(nodes) >= n THEN nodes
    ELSE LET vpos == sorted[((idx - 1 + i) % Len(sorted)) + 1]
             nodeID == ring[vpos]
         IN  WalkRing(ring, sorted, idx, i + 1, n,
                      IF \E j \in 1..Len(nodes) : nodes[j] = nodeID
                      THEN nodes ELSE Append(nodes, nodeID))

\* Ring.GetNodes
GetNodes(ring, key, n) ==
    LET sorted == Sorted(ring)
    IN  IF Len(sorted) = 0 THEN << >>
        ELSE WalkRing(ring, sorted, Search(sorted, HashKey(key)), 0, n, << >>)

\* Ring.NodeCount
NodeCount(ring) == Cardinality({ ring[p] : p \in DOMAIN ring })

\* Membership.ReplicaNodes: the ring's ids that are in the roster, in ring order
RECURSIVE FilterKnown(_, _, _)
FilterKnown(ids, roster, i) ==
    IF i > Len(ids) THEN << >>
    ELSE (IF ids[i] \in roster THEN <<ids[i]>> ELSE << >>) \o FilterKnown(ids, roster, i + 1)

ReplicaNodesOf(m, key, n) == FilterKnown(GetNodes(m.ring, key, n), m.nodes, 1)

\* NewMembership: every seed node in the roster and on the ring
RECURSIVE SeedRing(_, _)
SeedRing(ring, S) ==
    IF S = {} THEN ring
    ELSE LET id == CHOOSE x \in S : TRUE
         IN  SeedRing(AddNode(ring, id), S \ {id})

NewMembership(S) == [nodes |-> S, ring |-> SeedRing(EmptyRing, S)]

\* every membership a node can come to hold through Join and Leave
Memberships == { NewMembership(S) : S \in SUBSET Nodes }

\* Membership.ReplicaNodes for the cluster's key, tabulated once over the
\* memberships and the replication factors
ReplicaTable ==
    [m \in Memberships, n \in 0..Cardinality(Nodes) |-> ReplicaNodesOf(m, TheKey, n)]

ReplicaNodes(m, key, n) == ReplicaTable[m, n]

\* Membership.Join: refused when the id is already in the roster
MembershipJoin(m, id) ==
    IF id \in m.nodes THEN m
    ELSE [nodes |-> m.nodes \cup {id}, ring |-> AddNode(m.ring, id)]

\* a faulty Leave that forgets the ring
MembershipLeaveRosterOnly(m, id) ==
    IF id \notin m.nodes THEN m
    ELSE [nodes |-> m.nodes \ {id}, ring |-> m.ring]

\* Membership.Leave: refused when the id is not in the roster
MembershipLeave(m, id) ==
    IF id \notin m.nodes THEN m
    ELSE [nodes |-> m.nodes \ {id}, ring |-> RemoveNode(m.ring, id)]

\* make(map[string]*Node)
EmptyRoster == [id \in {} |-> [isAlive |-> FALSE]]

\* no call was made on the Rings in isolation
NoRingCall == [fn |-> "none"]

IdleRings ==
    /\ ringA = EmptyRing
    /\ onA = {}
    /\ ringB = EmptyRing
    /\ onB = {}
    /\ ringRes = NoRingCall
    /\ rosterA = EmptyRoster

\* main: the quorum check on the flags, then the capping to the ring's node count
Min(a, b) == IF a <= b THEN a ELSE b

StartupOk(n0, w0, r0) == ~(w0 + r0 <= n0)

Effective(n0, w0, r0, count) ==
    LET n == Min(n0, count)
    IN  [N |-> n, W |-> Min(w0, n), R |-> Min(r0, n)]

----------------------------------------------------------------------------
(* Reconciliation and read repair (internal/cluster/replicator.go) *)

\* ReplicaResponse
Response(nodeID, value, err) == [nodeID |-> nodeID, value |-> value, err |-> err]

\* reconcile's loop over the collected responses, from index i on
RECURSIVE ReconcileFrom(_, _, _, _)
ReconcileFrom(responses, i, winner, staleNodes) ==
    IF i > Len(responses) THEN [winner |-> winner, staleNodes |-> staleNodes]
    ELSE LET r == responses[i]
         IN  IF r.err \/ ~IsValue(r.value)
             THEN ReconcileFrom(responses, i + 1, winner, staleNodes)
             ELSE IF ~IsValue(winner)
             THEN ReconcileFrom(responses, i + 1, r.value, staleNodes)
             ELSE LET rel == Compare(r.value.clock, winner.clock)
                  IN  CASE rel = After ->
                             ReconcileFrom(responses, i + 1, r.value, Append(staleNodes, ""))
                        [] rel = Before ->
                             ReconcileFrom(responses, i + 1, winner, Append(staleNodes, r.nodeID))
                        [] rel = ConcurrentClocks ->
                             IF r.value.updatedAt > winner.updatedAt
                             THEN ReconcileFrom(responses, i + 1, r.value, staleNodes)
                             ELSE ReconcileFrom(responses, i + 1, winner,
                                                Append(staleNodes, r.nodeID))
                        [] OTHER ->
                             ReconcileFrom(responses, i + 1, winner, staleNodes)

\* reconcile
Reconcile(responses) == ReconcileFrom(responses, 1, NoValue, << >>)

\* a replicate request a sender goroutine still has to deliver
ReplicateMsg(to, value) == [to |-> to, value |-> value]

\* readRepair: one send per stale id that Membership.GetNode knows
ReadRepair(m, value, staleNodeIDs) ==
    { ReplicateMsg(staleNodeIDs[i], value) :
        i \in { j \in 1..Len(staleNodeIDs) : staleNodeIDs[j] \in m.nodes } }

\* peersOnly
RECURSIVE PeersOnly(_, _, _)
PeersOnly(nodes, selfID, i) ==
    IF i > Len(nodes) THEN {}
    ELSE (IF nodes[i] # selfID THEN {nodes[i]} ELSE {}) \cup PeersOnly(nodes, selfID, i + 1)

SeqToSet(s) == { s[i] : i \in 1..Len(s) }

\* const maxRetries in sendReplicateRequest
MaxRetries == 3

\* a sendReplicateRequest that was not started
IdleSender == [pc |-> "idle", attempt |-> 0, tries |-> << >>, err |-> FALSE, attempts |-> 0]

\* a faulty send that gives up one attempt early
SendAttemptGivingUpEarly(s, ok) ==
    LET tried == [s EXCEPT !.tries = Append(s.tries, ok)]
    IN  IF ok THEN [tried EXCEPT !.pc = "done", !.err = FALSE]
        ELSE IF s.attempt >= MaxRetries - 2
        THEN [tried EXCEPT !.pc = "done", !.err = TRUE, !.attempts = MaxRetries]
        ELSE [tried EXCEPT !.attempt = s.attempt + 1]

\* one turn of sendReplicateRequest's loop: doHTTPReplicate, return nil when it
\* succeeded, the error with the attempt count after the last attempt, the
\* next attempt otherwise
SendAttempt(s, ok) ==
    LET tried == [s EXCEPT !.tries = Append(s.tries, ok)]
    IN  IF ok THEN [tried EXCEPT !.pc = "done", !.err = FALSE]
        ELSE IF s.attempt = MaxRetries - 1
        THEN [tried EXCEPT !.pc = "done", !.err = TRUE, !.attempts = MaxRetries]
        ELSE [tried EXCEPT !.attempt = s.attempt + 1]

IdleSends ==
    /\ sender = [p \in Nodes |-> IdleSender]
    /\ sendAcks = 0

----------------------------------------------------------------------------
(* The cluster: handlers of internal/api and the Replicator's coordination *)

\* the largest value of the --n, --w, --r flags the model starts a cluster with
MaxFlag == 3

\* the effective quorum parameters of every start-up that main lets through
EffectiveConfigs ==
    { Effective(n0, w0, r0, NodeCount(NewMembership(Nodes).ring)) :
        <<n0, w0, r0>> \in { f \in (1..MaxFlag) \X (1..MaxFlag) \X (1..MaxFlag) :
                                StartupOk(f[1], f[2], f[3]) } }

IdleOp ==
    [kind |-> "idle", coord |-> "", val |-> NoValue, made |-> NoValue, waiting |-> {},
     acks |-> 0, ackedPeers |-> {}, errs |-> {}, collected |-> << >>, phase |-> "done",
     result |-> "", winner |-> NoValue]

\* the flag defaults of cmd/server/main.go
DefaultN == 3
DefaultW == 2
DefaultR == 2

DefaultConfig ==
    Effective(DefaultN, DefaultW, DefaultR, NodeCount(NewMembership(Nodes).ring))

\* every node started with the same flags and the full peer list, nothing stored yet
InitCluster(configs) ==
    /\ store = [n \in Nodes |-> NoValue]
    /\ members = [n \in Nodes |-> NewMembership(Nodes)]
    /\ cfg \in configs
    /\ op = IdleOp
    /\ bg = {}
    /\ nops = 0
    /\ acked = {}
    /\ deleted = FALSE

\* a faulty return that takes the running senders down with it
WriteReturnDroppingSends(o, res) ==
    /\ op' = [o EXCEPT !.phase = "done", !.result = res, !.waiting = {}]
    /\ bg' = bg
    /\ acked' = IF res = "ok" THEN acked \cup {o.val} ELSE acked

\* ReplicateWrite returns res; the sender goroutines of the peers that have not
\* answered keep running
WriteReturn(o, res) ==
    /\ op' = [o EXCEPT !.phase = "done", !.result = res, !.waiting = {}]
    /\ bg' = bg \cup { ReplicateMsg(p, o.val) : p \in o.waiting }
    /\ acked' = IF res = "ok" THEN acked \cup {o.val} ELSE acked

\* Handler.Put -> ReplicateWrite(key, data, nil): the local Store.Put, the replica
\* lookup and the fan-out; with no peers the wait loop is skipped
HandlerPut(c, data, walOk) ==
    /\ op.phase = "done"
    /\ nops < MaxOps
    /\ nops' = nops + 1
    /\ now' = now + 1
    /\ LET v == PutValue(c, data, NilClock, now)
           peers == PeersOnly(ReplicaNodes(members[c], TheKey, cfg.N), c, 1)
           o == [IdleOp EXCEPT !.kind = "put", !.coord = c, !.val = v, !.made = v,
                               !.waiting = peers, !.acks = 1, !.phase = "run"]
       IN  IF ~walOk
           THEN /\ op' = [IdleOp EXCEPT !.kind = "put", !.coord = c, !.result = "local_error"]
                /\ UNCHANGED <<store, bg, acked, deleted>>
           ELSE /\ store' = [store EXCEPT ![c] = v]
                /\ deleted' = FALSE
                /\ IF peers = {}
                   THEN WriteReturn(o, IF o.acks >= cfg.W THEN "ok" ELSE "quorum_not_met")
                   ELSE /\ op' = o
                        /\ UNCHANGED <<bg, acked>>
    /\ UNCHANGED <<members, cfg>>

\* one sender goroutine of the request in service finishes sendReplicateRequest:
\* "ack"  the peer's InternalReplicate ran Store.ApplyRemote and answered 2xx,
\* "lost" the peer applied the value but the sender saw an error,
\* "fail" the peer never applied it and the sender saw an error
PeerReplicate(p, outcome) ==
    /\ op.phase = "run"
    /\ op.kind \in {"put", "del"}
    /\ p \in op.waiting
    /\ store' = IF outcome \in {"ack", "lost"}
                THEN [store EXCEPT ![p] = ApplyRemote(store[p], op.val)]
                ELSE store
    /\ LET o == [op EXCEPT !.waiting = op.waiting \ {p},
                           !.acks = IF outcome = "ack" THEN op.acks + 1 ELSE op.acks,
                           !.ackedPeers = IF outcome = "ack" THEN op.ackedPeers \cup {p}
                                          ELSE op.ackedPeers,
                           !.errs = IF outcome = "ack" THEN op.errs ELSE op.errs \cup {p}]
       IN  IF op.kind = "put"
           THEN /\ IF outcome = "ack" /\ o.acks >= cfg.W
                   THEN WriteReturn(o, "ok")
                   ELSE IF o.waiting = {}
                   THEN WriteReturn(o, IF o.acks >= cfg.W THEN "ok" ELSE "quorum_not_met")
                   ELSE /\ op' = o
                        /\ UNCHANGED <<bg, acked>>
                /\ UNCHANGED deleted
           ELSE \* DeleteReplicated: wg.Wait() for every sender, then return nil
                /\ IF o.waiting = {}
                   THEN /\ op' = [o EXCEPT !.phase = "done", !.result = "ok"]
                        /\ deleted' = TRUE
                   ELSE /\ op' = o
                        /\ UNCHANGED deleted
                /\ UNCHANGED <<bg, acked>>
    /\ UNCHANGED <<members, cfg, nops, now>>

\* a faulty deadline branch: success whatever was acknowledged
WriteTimeoutIgnoringAcks ==
    /\ op.phase = "run"
    /\ op.kind = "put"
    /\ WriteReturn(op, "ok")
    /\ UNCHANGED <<store, members, cfg, nops, deleted, now>>

\* a faulty deadline branch that undoes the local Put when the quorum was missed
WriteTimeoutRollingBack ==
    /\ op.phase = "run"
    /\ op.kind = "put"
    /\ WriteReturn(op, IF op.acks >= cfg.W THEN "ok" ELSE "quorum_timeout")
    /\ store' = IF op.acks >= cfg.W THEN store ELSE [store EXCEPT ![op.coord] = NoValue]
    /\ UNCHANGED <<members, cfg, nops, deleted, now>>

\* ReplicateWrite: the 5 s timer fires while the wait loop is running
WriteTimeout ==
    /\ op.phase = "run"
    /\ op.kind = "put"
    /\ WriteReturn(op, IF op.acks >= cfg.W THEN "ok" ELSE "quorum_timeout")
    /\ UNCHANGED <<store, members, cfg, nops, deleted, now>>

\* Handler.Delete -> DeleteReplicated: the local Store.Delete
HandlerDelete(c, walOk) ==
    /\ op.phase = "done"
    /\ nops < MaxOps
    /\ nops' = nops + 1
    /\ now' = now + 1
    /\ IF ~walOk
       THEN /\ op' = [IdleOp EXCEPT !.kind = "del", !.coord = c, !.result = "local_error"]
            /\ UNCHANGED <<store, acked>>
       ELSE LET v == DeleteValue(c, store[c], now)
            IN  /\ store' = [store EXCEPT ![c] = v]
                /\ op' = [IdleOp EXCEPT !.kind = "del", !.coord = c, !.made = v,
                                        !.phase = "fetch"]
                /\ acked' = {}
    /\ UNCHANGED <<members, cfg, bg, deleted>>

\* a faulty fan-out: answer at once and leave the senders running
DeleteFanoutNotWaiting ==
    /\ op.phase = "fetch"
    /\ LET peers == PeersOnly(ReplicaNodes(members[op.coord], TheKey, cfg.N), op.coord, 1)
       IN  /\ op' = [op EXCEPT !.val = store[op.coord], !.phase = "done", !.result = "ok"]
           /\ bg' = bg \cup { ReplicateMsg(p, store[op.coord]) : p \in peers }
           /\ deleted' = TRUE
    /\ UNCHANGED <<store, members, cfg, nops, acked, now>>

\* DeleteReplicated: val, _ := store.GetRaw(key), the replica lookup and the fan-out
DeleteFanout ==
    /\ op.phase = "fetch"
    /\ LET peers == PeersOnly(ReplicaNodes(members[op.coord], TheKey, cfg.N), op.coord, 1)
           o == [op EXCEPT !.val = store[op.coord], !.waiting = peers, !.phase = "run"]
       IN  IF peers = {}
           THEN /\ op' = [o EXCEPT !.phase = "done", !.result = "ok"]
                /\ deleted' = TRUE
           ELSE /\ op' = o
                /\ UNCHANGED deleted
    /\ UNCHANGED <<store, members, cfg, bg, nops, acked, now>>

\* CoordinateRead: the replica lookup and the fan-out
CoordinateReadStart(c) ==
    /\ op.phase = "done"
    /\ op' = [IdleOp EXCEPT !.kind = "get", !.coord = c, !.phase = "run",
                            !.waiting = SeqToSet(ReplicaNodes(members[c], TheKey, cfg.N))]
    /\ UNCHANGED <<store, members, cfg, bg, acked, deleted, now>>

\* Handler.Get -> CoordinateRead
HandlerGet(c) ==
    /\ nops < MaxOps
    /\ nops' = nops + 1
    /\ CoordinateReadStart(c)

\* the response one reader goroutine puts on the channel: the local GetRaw, or
\* fetchFromPeer (ok: the peer's InternalFetch answered, 404 giving a nil Value)
FetchResponse(c, n, ok) ==
    IF n = c \/ ok THEN Response(n, store[n], FALSE) ELSE Response(n, NoValue, TRUE)

\* CoordinateRead receives one response; with R collected it reconciles, answers
\* and starts read repair
ReadResponse(n, ok) ==
    /\ op.phase = "run"
    /\ op.kind = "get"
    /\ n \in op.waiting
    /\ n = op.coord => ok
    /\ LET collected == Append(op.collected, FetchResponse(op.coord, n, ok))
           rec == Reconcile(collected)
       IN  IF Len(collected) < cfg.R
           THEN /\ op' = [op EXCEPT !.waiting = op.waiting \ {n}, !.collected = collected]
                /\ UNCHANGED bg
           ELSE IF ~IsValue(rec.winner) \/ rec.winner.tombstone
           THEN /\ op' = [op EXCEPT !.waiting = {}, !.collected = collected,
                                    !.phase = "done", !.result = "notfound"]
                /\ UNCHANGED bg
           ELSE /\ op' = [op EXCEPT !.waiting = {}, !.collected = collected,
                                    !.phase = "done", !.result = "value",
                                    !.winner = rec.winner]
                /\ bg' = bg \cup ReadRepair(members[op.coord], rec.winner, rec.staleNodes)
    /\ UNCHANGED <<store, members, cfg, nops, acked, deleted, now>>

\* a faulty deadline branch: reconcile what was collected so far and answer
ReadTimeoutAnswering ==
    /\ op.phase = "run"
    /\ op.kind = "get"
    /\ LET rec == Reconcile(op.collected)
       IN  op' = [op EXCEPT !.waiting = {}, !.phase = "done",
                            !.result = IF ~IsValue(rec.winner) \/ rec.winner.tombstone
                                       THEN "notfound" ELSE "value",
                            !.winner = rec.winner]
    /\ UNCHANGED <<store, members, cfg, bg, nops, acked, deleted, now>>

\* CoordinateRead: the 5 s timer fires before R responses were collected
ReadTimeout ==
    /\ op.phase = "run"
    /\ op.kind = "get"
    /\ op' = [op EXCEPT !.waiting = {}, !.phase = "done", !.result = "read_timeout"]
    /\ UNCHANGED <<store, members, cfg, bg, nops, acked, deleted, now>>

\* a faulty delivery: the peer stores what arrives whatever it holds
BgDeliverOverwriting(m, applied) ==
    /\ m \in bg
    /\ bg' = bg \ {m}
    /\ store' = IF applied THEN [store EXCEPT ![m.to] = m.value] ELSE store
    /\ UNCHANGED <<members, cfg, op, nops, acked, deleted, now>>

\* a sender goroutine left behind by a returned request finishes: the peer applied
\* the value, or the send failed for good
BgDeliver(m, applied) ==
    /\ m \in bg
    /\ bg' = bg \ {m}
    /\ store' = IF applied THEN [store EXCEPT ![m.to] = ApplyRemote(store[m.to], m.value)]
                ELSE store
    /\ UNCHANGED <<members, cfg, op, nops, acked, deleted, now>>

\* Handler.Join at node c
HandlerJoin(c, id) ==
    /\ nops < MaxOps
    /\ nops' = nops + 1
    /\ members' = [members EXCEPT ![c] = MembershipJoin(members[c], id)]
    /\ UNCHANGED <<store, cfg, op, bg, acked, deleted, now>>

\* Handler.Leave at node c
HandlerLeave(c, id) ==
    /\ nops < MaxOps
    /\ nops' = nops + 1
    /\ members' = [members EXCEPT ![c] = MembershipLeave(members[c], id)]
    /\ UNCHANGED <<store, cfg, op, bg, acked, deleted, now>>

SendOutcomes == {"ack", "lost", "fail"}

\* the requests that write: puts and their senders
WriteActions ==
    \/ \E c \in Nodes, d \in ShortData, walOk \in BOOLEAN : HandlerPut(c, d, walOk)
    \/ \E p \in Nodes, outcome \in SendOutcomes : PeerReplicate(p, outcome)
    \/ WriteTimeout
    \/ \E m \in bg, applied \in BOOLEAN : BgDeliver(m, applied)

DeleteActions ==
    \/ \E c \in Nodes, walOk \in BOOLEAN : HandlerDelete(c, walOk)
    \/ DeleteFanout

ReadActions ==
    \/ \E c \in Nodes : HandlerGet(c)
    \/ \E n \in Nodes, ok \in BOOLEAN : ReadResponse(n, ok)
    \/ ReadTimeout

MemberActions ==
    \/ \E c \in Nodes, id \in Nodes : HandlerJoin(c, id)
    \/ \E c \in Nodes, id \in Nodes : HandlerLeave(c, id)

\* A cluster of three nodes started with the default flags (N=3, W=2, R=2)
Init ==
    /\ InitCluster({DefaultConfig})
    /\ InitEngine
    /\ IdleClocks
    /\ IdleRings
    /\ IdleSends
    /\ IdleMain
    /\ delivered = NoDelivery
    /\ recon = NoReconcile
    /\ fan = NoFanOut
    /\ now = 0

Next ==
    \/ WriteActions
    \/ DeleteActions
    \/ ReadActions
    \/ MemberActions

Spec == Init /\ [][Next /\ UNCHANGED <<engineVars, isolatedVars>>]_vars

\* Clusters started with any flags main accepts
InitQuorum ==
    /\ InitCluster(EffectiveConfigs)
    /\ InitEngine
    /\ IdleClocks
    /\ IdleRings
    /\ IdleSends
    /\ IdleMain
    /\ delivered = NoDelivery
    /\ recon = NoReconcile
    /\ fan = NoFanOut
    /\ now = 0

\* requests issued in one behaviour of SpecWrite and SpecRead
MaxReqs == 2

\* puts and membership changes, under every accepted configuration
NextWrite ==
    \/ WriteActions
    \/ MemberActions

SpecWrite == InitQuorum /\ [][NextWrite /\ nops' <= MaxReqs /\ UNCHANGED <<engineVars, isolatedVars>>]_vars

\* puts whose local WAL append succeeds
PlainWrites ==
    \/ \E c \in Nodes : HandlerPut(c, "1", TRUE)
    \/ \E p \in Nodes, outcome \in SendOutcomes : PeerReplicate(p, outcome)
    \/ WriteTimeout
    \/ \E m \in bg, applied \in BOOLEAN : BgDeliver(m, applied)

\* gets, membership changes and puts, under every accepted configuration
NextRead ==
    \/ ReadActions
    \/ MemberActions
    \/ PlainWrites

SpecRead == InitQuorum /\ [][NextRead /\ nops' <= MaxReqs /\ UNCHANGED <<engineVars, isolatedVars>>]_vars

\* deletes, membership changes and puts, under every accepted configuration
NextDelete ==
    \/ DeleteActions
    \/ MemberActions
    \/ PlainWrites

SpecDelete == InitQuorum /\ [][NextDelete /\ nops' <= MaxReqs /\ UNCHANGED <<engineVars, isolatedVars>>]_vars

----------------------------------------------------------------------------
(* Specifications of the storage engine *)

AllData == ShortData \cup {LongData}

\* Put and Delete calls on one Store, and kill / restart
NextWal ==
    \/ \E k \in Keys, d \in AllData, walOk \in BOOLEAN : Put(k, d, walOk)
    \/ \E k \in Keys, walOk \in BOOLEAN : Delete(k, walOk)
    \/ Assign
    \/ Restart

InitStore ==
    /\ InitCluster({DefaultConfig})
    /\ InitEngine
    /\ IdleClocks
    /\ IdleRings
    /\ IdleSends
    /\ IdleMain
    /\ delivered = NoDelivery
    /\ recon = NoReconcile
    /\ fan = NoFanOut
    /\ now = 0

SpecWal == InitStore /\ [][NextWal /\ UNCHANGED <<clusterVars, isolatedVars>>]_vars

\* every Store call, the Snapshot callers, and kill / restart
NextStore ==
    \/ \E k \in Keys, d \in AllData, walOk \in BOOLEAN : Put(k, d, walOk)
    \/ \E k \in Keys, walOk \in BOOLEAN : Delete(k, walOk)
    \/ \E k \in Keys, v \in RemoteValues, walOk \in BOOLEAN : StoreApplyRemote(k, v, walOk)
    \/ Assign
    \/ \E t \in Snapshotters : SnapshotCopy(t)
    \/ \E t \in Snapshotters, ok \in BOOLEAN : SnapshotWrite(t, ok)
    \/ \E t \in Snapshotters : SnapshotRename(t)
    \/ \E t \in Snapshotters : SnapshotTruncate(t)
    \/ Restart

SpecStore == InitStore /\ [][NextStore /\ nmut' <= MaxStoreMut /\ UNCHANGED <<clusterVars, isolatedVars>>]_vars

\* puts, the two Snapshot callers, and kill / restart
NextSnap ==
    \/ \E k \in Keys, walOk \in BOOLEAN : Put(k, "1", walOk)
    \/ Assign
    \/ \E t \in Snapshotters : SnapshotCopy(t)
    \/ \E t \in Snapshotters, ok \in BOOLEAN : SnapshotWrite(t, ok)
    \/ \E t \in Snapshotters : SnapshotRename(t)
    \/ \E t \in Snapshotters : SnapshotTruncate(t)
    \/ Restart

SpecSnap == InitStore /\ [][NextSnap /\ nmut' <= MaxStoreMut /\ UNCHANGED <<clusterVars, isolatedVars>>]_vars

\* no Snapshot call is running
Quiet == \A t \in Snapshotters : snapPc[t] = "idle"

\* Put and Delete calls, Snapshot calls that run with no other call beside
\* them, and kill / restart at any point
NextRecover ==
    \/ \E k \in Keys, d \in AllData : Quiet /\ Put(k, d, TRUE)
    \/ \E k \in Keys : Quiet /\ Delete(k, TRUE)
    \/ Assign
    \/ \E t \in Snapshotters : Quiet /\ SnapshotCopy(t)
    \/ \E t \in Snapshotters, ok \in BOOLEAN : SnapshotWrite(t, ok)
    \/ \E t \in Snapshotters : SnapshotRename(t)
    \/ \E t \in Snapshotters : SnapshotTruncate(t)
    \/ Restart

SpecRecover == InitStore /\ [][NextRecover /\ UNCHANGED <<clusterVars, isolatedVars>>]_vars

\* Values a peer may replicate to this node: older than, equal to, newer than
\* and concurrent with what the node's own Put and Delete calls store
ArbitrationClocks ==
    { [n \in {"n1"} |-> 1], [n \in {"n1"} |-> 2], [n \in {"n2"} |-> 1] }

ArbitrationValues ==
    { [data |-> "2", clock |-> c, tombstone |-> FALSE, updatedAt |-> t] :
        c \in ArbitrationClocks, t \in {0, 1} }

\* Put, Delete and ApplyRemote calls on one Store
NextApply ==
    \/ \E k \in Keys, walOk \in BOOLEAN : Put(k, "1", walOk)
    \/ \E k \in Keys, walOk \in BOOLEAN : Delete(k, walOk)
    \/ \E k \in Keys, v \in ArbitrationValues, walOk \in BOOLEAN : StoreApplyRemote(k, v, walOk)
    \/ Assign

SpecApply == InitStore /\ [][NextApply /\ UNCHANGED <<clusterVars, isolatedVars>>]_vars

----------------------------------------------------------------------------
(* Read repair on a quiet cluster: every node reachable, no client writes,  *)
(* clients keep reading                                                      *)

\* Put("1") served by n1 at time 0, Put("2") served by n2 at time 1, and the
\* Delete served by n1 at time 1 over its own put
PutAtN1 == PutValue("n1", "1", NilClock, 0)
PutAtN2 == PutValue("n2", "2", NilClock, 1)
DeleteAtN1 == DeleteValue("n1", PutAtN1, 1)

RepairValues == {PutAtN1, PutAtN2, DeleteAtN1}

\* what the replicas hold after
\*  - a put acknowledged by n1 and n2 while n3 was unreachable,
\*  - a put acknowledged everywhere, then a delete at n1 whose sends both failed,
\*  - two puts at n1 and n2 whose sends all failed
RepairScenarios ==
    { [n \in Nodes |-> IF n = "n3" THEN NoValue ELSE PutAtN1],
      [n \in Nodes |-> IF n = "n1" THEN DeleteAtN1 ELSE PutAtN1],
      [n \in Nodes |-> CASE n = "n1" -> PutAtN1 [] n = "n2" -> PutAtN2 [] OTHER -> NoValue] }

InitRepair ==
    /\ store \in RepairScenarios
    /\ members = [n \in Nodes |-> NewMembership(Nodes)]
    /\ cfg = DefaultConfig
    /\ op = IdleOp
    /\ bg = {}
    /\ nops = 0
    /\ acked = {}
    /\ deleted = FALSE
    /\ InitEngine
    /\ IdleClocks
    /\ IdleRings
    /\ IdleSends
    /\ IdleMain
    /\ delivered = NoDelivery
    /\ recon = NoReconcile
    /\ fan = NoFanOut
    /\ now = 2

\* a client reads through node c
RepairRead(c) == CoordinateReadStart(c) /\ UNCHANGED <<nops, engineVars, isolatedVars>>

\* node n's response is the next to be collected
RepairResponse(n) == ReadResponse(n, TRUE) /\ UNCHANGED <<engineVars, isolatedVars>>

\* a read-repair send reaches its peer
RepairDeliver == (\E m \in bg : BgDeliver(m, TRUE)) /\ UNCHANGED <<engineVars, isolatedVars>>

NextRepair ==
    \/ \E c \in Nodes : RepairRead(c)
    \/ \E n \in Nodes : RepairResponse(n)
    \/ RepairDeliver

\* clients keep reading through every node, every order of arrival of the
\* responses keeps occurring, and every repair send is delivered
FairRepair ==
    /\ \A c \in Nodes : SF_vars(RepairRead(c))
    /\ \A n \in Nodes : SF_vars(op.collected = << >> /\ RepairResponse(n))
    /\ \A m \in Nodes : \A n \in Nodes \ {m} :
           SF_vars(/\ Len(op.collected) = 1
                   /\ op.collected[1].nodeID = m
                   /\ RepairResponse(n))
    /\ WF_vars(RepairDeliver)

SpecRepair == InitRepair /\ [][NextRepair]_vars /\ FairRepair

----------------------------------------------------------------------------
(* Start-up of one server process (cmd/server/main.go) *)

\* the values given to --n, --w and --r
FlagValues == 0..MaxFlag

\* node n1 is started with some flags and some --peers list
InitStartup ==
    /\ \E peers \in SUBSET (Nodes \ {"n1"}) :
           members = [n \in Nodes |-> NewMembership({"n1"} \cup peers)]
    /\ \E n0 \in FlagValues, w0 \in FlagValues, r0 \in FlagValues :
           cfg = [N |-> n0, W |-> w0, R |-> r0, stage |-> "flags"]
    /\ store = [n \in Nodes |-> NoValue]
    /\ op = IdleOp
    /\ bg = {}
    /\ nops = 0
    /\ acked = {}
    /\ deleted = FALSE
    /\ InitEngine
    /\ IdleClocks
    /\ IdleRings
    /\ IdleSends
    /\ IdleMain
    /\ delivered = NoDelivery
    /\ recon = NoReconcile
    /\ fan = NoFanOut
    /\ now = 0

\* main: if w + r <= n then log.Fatalf
MainQuorumCheck ==
    /\ cfg.stage = "flags"
    /\ cfg' = [cfg EXCEPT !.stage = IF StartupOk(cfg.N, cfg.W, cfg.R)
                                    THEN "checked" ELSE "fatal"]
    /\ UNCHANGED <<store, members, op, bg, nops, acked, deleted, now>>

\* main: the capping to the ring's node count and NewReplicator(..., n, w, r)
MainNewReplicator ==
    /\ cfg.stage = "checked"
    /\ LET e == Effective(cfg.N, cfg.W, cfg.R, NodeCount(members["n1"].ring))
       IN  cfg' = [N |-> e.N, W |-> e.W, R |-> e.R, stage |-> "running"]
    /\ UNCHANGED <<store, members, op, bg, nops, acked, deleted, now>>

NextStartup ==
    \/ MainQuorumCheck
    \/ MainNewReplicator

SpecStartup == InitStartup /\ [][NextStartup /\ UNCHANGED <<engineVars, isolatedVars>>]_vars

----------------------------------------------------------------------------
(* Vector clocks in isolation (internal/store/vector_clock.go) *)

\* the largest counter of the clocks the calls start from
MaxCount == 2

ClockNodes == {"n1", "n2"}

\* every map from some node ids to counters, explicit zero entries included
Clocks == UNION { [S -> 0..MaxCount] : S \in SUBSET ClockNodes }

InitClock ==
    /\ vcA \in Clocks
    /\ vcB \in Clocks
    /\ vcRes = NoClockCall
    /\ IdleRings
    /\ IdleSends
    /\ IdleMain
    /\ delivered = NoDelivery
    /\ recon = NoReconcile
    /\ fan = NoFanOut
    /\ InitCluster({DefaultConfig})
    /\ InitEngine
    /\ now = 0

\* rel := vcA.Compare(vcB)
CallCompare ==
    /\ vcRes' = [fn |-> "Compare", a |-> vcA, b |-> vcB, out |-> Compare(vcA, vcB)]
    /\ UNCHANGED <<vcA, vcB>>

\* a faulty Merge that skips the Copy: merged is the receiver's own map, and the
\* loop writes into it
MergeInPlace(vc, other) ==
    [vc |-> Merge(vc, other), other |-> other, merged |-> Merge(vc, other)]

\* the three maps once vc.Merge(other) has returned: Copy allocates merged with
\* make, so the loop writes into merged alone and only reads other
MergeEffect(vc, other) ==
    [vc |-> vc, other |-> other, merged |-> Merge(vc, other)]

\* m := vcA.Merge(vcB)
CallMerge ==
    LET e == MergeEffect(vcA, vcB)
    IN  /\ vcRes' = [fn |-> "Merge", a |-> vcA, b |-> vcB, out |-> e.merged]
        /\ vcA' = e.vc
        /\ vcB' = e.other

\* vcA.Increment(nodeID)
CallIncrement(nodeID) ==
    /\ ClockGet(vcA, nodeID) < MaxCount
    /\ vcA' = Increment(vcA, nodeID)
    /\ vcRes' = [fn |-> "Increment", a |-> vcA, b |-> vcB, node |-> nodeID, out |-> vcA']
    /\ UNCHANGED vcB

NextClock ==
    \/ CallCompare
    \/ CallMerge
    \/ \E n \in ClockNodes : CallIncrement(n)

SpecClock ==
    InitClock /\ [][NextClock /\ UNCHANGED <<clusterVars, engineVars, ringVars, sendVars, mainVars, delivered, recon, fan, now>>]_vars

----------------------------------------------------------------------------
(* Hash rings in isolation (internal/cluster/membership.go, type Ring) *)

\* the largest n of a GetNodes call
MaxWant == 3

RingNodes == Nodes \cup {"n4"}

RingKeys == {"k", "a", "b"}

InitRing ==
    /\ IdleRings
    /\ IdleSends
    /\ IdleMain
    /\ delivered = NoDelivery
    /\ recon = NoReconcile
    /\ fan = NoFanOut
    /\ IdleClocks
    /\ InitCluster({DefaultConfig})
    /\ InitEngine
    /\ now = 0

\* r.AddNode(nodeID) on the first Ring
RingAddNode(nodeID) ==
    /\ ringA' = AddNode(ringA, nodeID)
    /\ onA' = onA \cup {nodeID}
    /\ ringRes' = [fn |-> "AddNode", id |-> nodeID, ring |-> ringA, on |-> onA]
    /\ UNCHANGED <<ringB, onB, rosterA>>

\* r.RemoveNode(nodeID) on the first Ring
RingRemoveNode(nodeID) ==
    /\ ringA' = RemoveNode(ringA, nodeID)
    /\ onA' = onA \ {nodeID}
    /\ ringRes' = [fn |-> "RemoveNode", id |-> nodeID, ring |-> ringA, on |-> onA]
    /\ UNCHANGED <<ringB, onB, rosterA>>

\* r.GetNodes(key, n) on the first Ring
RingGetNodes(key, n) ==
    /\ ringRes' = [fn |-> "GetNodes", key |-> key, n |-> n, out |-> GetNodes(ringA, key, n)]
    /\ UNCHANGED <<ringA, onA, ringB, onB, rosterA>>

\* r.AddNode(nodeID) on the second Ring
OtherRingAddNode(nodeID) ==
    /\ ringB' = AddNode(ringB, nodeID)
    /\ onB' = onB \cup {nodeID}
    /\ UNCHANGED <<ringA, onA, ringRes, rosterA>>

\* r.RemoveNode(nodeID) on the second Ring
OtherRingRemoveNode(nodeID) ==
    /\ ringB' = RemoveNode(ringB, nodeID)
    /\ onB' = onB \ {nodeID}
    /\ UNCHANGED <<ringA, onA, ringRes, rosterA>>

NextRing ==
    \/ \E id \in RingNodes : RingAddNode(id)
    \/ \E id \in RingNodes : RingRemoveNode(id)
    \/ \E key \in RingKeys, n \in 0..MaxWant : RingGetNodes(key, n)
    \/ \E id \in RingNodes : OtherRingAddNode(id)
    \/ \E id \in RingNodes : OtherRingRemoveNode(id)

SpecRing ==
    InitRing /\ [][NextRing /\ UNCHANGED <<clusterVars, engineVars, clockVars, sendVars, mainVars, delivered, recon, fan, now>>]_vars

----------------------------------------------------------------------------
(* A Membership in isolation (internal/cluster/membership.go) *)

\* m.Join(node): the roster check, then the roster entry marked alive and the
\* ring's AddNode
MemberJoin(id, isAlive) ==
    LET m == [nodes |-> DOMAIN rosterA, ring |-> ringA]
        err == id \in DOMAIN rosterA
        joined == MembershipJoin(m, id)
    IN  /\ ringA' = joined.ring
        /\ rosterA' = [n \in joined.nodes |->
                         IF n \in DOMAIN rosterA THEN rosterA[n] ELSE [isAlive |-> TRUE]]
        /\ ringRes' = [fn |-> "Join", id |-> id, err |-> err, ring |-> ringA, roster |-> rosterA]
        /\ UNCHANGED <<onA, ringB, onB>>

\* m.Leave(nodeID): the roster check, then the roster's delete and the ring's
\* RemoveNode
MemberLeave(id) ==
    LET m == [nodes |-> DOMAIN rosterA, ring |-> ringA]
        err == id \notin DOMAIN rosterA
        left == MembershipLeave(m, id)
    IN  /\ ringA' = left.ring
        /\ rosterA' = [n \in left.nodes |-> rosterA[n]]
        /\ ringRes' = [fn |-> "Leave", id |-> id, err |-> err, ring |-> ringA, roster |-> rosterA]
        /\ UNCHANGED <<onA, ringB, onB>>

NextMember ==
    \/ \E id \in RingNodes, isAlive \in BOOLEAN : MemberJoin(id, isAlive)
    \/ \E id \in RingNodes : MemberLeave(id)

SpecMember ==
    InitRing /\ [][NextMember /\ UNCHANGED <<clusterVars, engineVars, clockVars, sendVars, mainVars, delivered, recon, fan, now>>]_vars

----------------------------------------------------------------------------
(* The replicate senders of one fan-out in isolation (replicator.go) *)

InitSend ==
    /\ IdleSends
    /\ IdleMain
    /\ delivered = NoDelivery
    /\ recon = NoReconcile
    /\ fan = NoFanOut
    /\ IdleClocks
    /\ IdleRings
    /\ InitCluster({DefaultConfig})
    /\ InitEngine
    /\ now = 0

\* go func(p *Node) { err := rep.sendReplicateRequest(p, key, val) ... }
SendStart(p) ==
    /\ sender[p].pc = "idle"
    /\ sender' = [sender EXCEPT ![p].pc = "run"]
    /\ UNCHANGED sendAcks

\* one attempt of the send to p; when the send returns, the result reaches
\* ReplicateWrite's loop: acks++ on a nil error
SendTry(p, ok) ==
    /\ sender[p].pc = "run"
    /\ LET s == SendAttempt(sender[p], ok)
       IN  /\ sender' = [sender EXCEPT ![p] = s]
           /\ sendAcks' = IF s.pc = "done" /\ ~s.err THEN sendAcks + 1 ELSE sendAcks

NextSend ==
    \/ \E p \in Nodes : SendStart(p)
    \/ \E p \in Nodes, ok \in BOOLEAN : SendTry(p, ok)

SpecSend ==
    InitSend /\ [][NextSend /\ UNCHANGED <<clusterVars, engineVars, clockVars, ringVars, mainVars, delivered, recon, fan, now>>]_vars

----------------------------------------------------------------------------
(* main's shutdown path over one node's storage engine (cmd/server/main.go) *)

\* srv.ListenAndServe: a PUT request is accepted; the server accepts until
\* srv.Shutdown is called
Accept(key) ==
    /\ mainPc \in {"serving", "signalled"}
    /\ key \notin inflight
    /\ inflight' = inflight \cup {key}
    /\ UNCHANGED <<mainPc, engineVars, now>>

\* an accepted request runs Store.Put up to the WAL append
Serve(key) ==
    /\ mainPc # "exited"
    /\ key \in inflight
    /\ Put(key, "1", TRUE)
    /\ inflight' = inflight \ {key}
    /\ UNCHANGED mainPc

\* the request's Put assigns the map and returns
ServeAssign ==
    /\ mainPc # "exited"
    /\ Assign
    /\ UNCHANGED mainVars

\* <-quit: SIGINT or SIGTERM arrives
Signal ==
    /\ mainPc = "serving"
    /\ mainPc' = "signalled"
    /\ UNCHANGED <<inflight, engineVars, now>>

\* the final s.Snapshot() of main, step by step
FinalSnapshot ==
    /\ mainPc = "signalled"
    /\ \/ snapRet["shutdown"] = "none" /\ SnapshotCopy("shutdown")
       \/ \E ok \in BOOLEAN : SnapshotWrite("shutdown", ok)
       \/ SnapshotRename("shutdown")
       \/ SnapshotTruncate("shutdown")
    /\ UNCHANGED mainVars

\* srv.Shutdown(ctx) is called once the final snapshot has returned: the
\* server stops accepting
Shutdown ==
    /\ mainPc = "signalled"
    /\ snapPc["shutdown"] = "idle"
    /\ snapRet["shutdown"] \in {"ok", "error"}
    /\ mainPc' = "shutdown"
    /\ UNCHANGED <<inflight, engineVars, now>>

\* srv.Shutdown returns, the requests in flight having completed or the 15 s
\* having passed, and main returns
Exit(graceExpired) ==
    /\ mainPc = "shutdown"
    /\ graceExpired \/ (inflight = {} /\ pending = NoPending)
    /\ mainPc' = "exited"
    /\ UNCHANGED <<inflight, engineVars, now>>

NextShutdown ==
    \/ \E key \in Keys : Accept(key)
    \/ \E key \in Keys : Serve(key)
    \/ ServeAssign
    \/ Signal
    \/ FinalSnapshot
    \/ Shutdown
    \/ \E graceExpired \in BOOLEAN : Exit(graceExpired)

SpecShutdown ==
    InitStore /\ [][NextShutdown /\ UNCHANGED <<clusterVars, clockVars, ringVars, sendVars, delivered, recon, fan>>]_vars

----------------------------------------------------------------------------
(* Read repair racing deletes: reads, deletes and the repair sends in flight *)

\* a delete and its fan-out, the local WAL append succeeding
RegressDelete ==
    /\ \/ \E c \in Nodes : HandlerDelete(c, TRUE)
       \/ DeleteFanout
       \/ \E p \in Nodes, outcome \in SendOutcomes : PeerReplicate(p, outcome)
    /\ UNCHANGED <<engineVars, isolatedVars>>

\* a read-repair send reaches its peer, whose InternalReplicate runs ApplyRemote
RepairArrives(m) ==
    /\ BgDeliver(m, TRUE)
    /\ delivered' = [msg |-> m, before |-> store[m.to]]
    /\ UNCHANGED <<engineVars, clockVars, ringVars, sendVars, mainVars, recon, fan>>

NextRegress ==
    \/ \E c \in Nodes : RepairRead(c)
    \/ \E n \in Nodes : RepairResponse(n)
    \/ RegressDelete
    \/ \E m \in bg : RepairArrives(m)

SpecRegress == InitRepair /\ [][NextRegress /\ nops' <= MaxReqs]_vars

----------------------------------------------------------------------------
(* A failure-free cluster after a delete that every replica acknowledged *)

\* n1 served a put and then the delete of the key; every send of both was
\* acknowledged, so all replicas hold n1's tombstone
InitAfterDelete ==
    /\ store = [n \in Nodes |-> DeleteAtN1]
    /\ members = [n \in Nodes |-> NewMembership(Nodes)]
    /\ cfg = DefaultConfig
    /\ op = IdleOp
    /\ bg = {}
    /\ nops = 0
    /\ acked = {}
    /\ deleted = TRUE
    /\ InitEngine
    /\ IdleClocks
    /\ IdleRings
    /\ IdleSends
    /\ IdleMain
    /\ delivered = NoDelivery
    /\ recon = NoReconcile
    /\ fan = NoFanOut
    /\ now = 2

\* puts and gets with every WAL append, every send and every fetch succeeding
NextHealthy ==
    \/ \E c \in Nodes, d \in ShortData : HandlerPut(c, d, TRUE)
    \/ \E p \in Nodes : PeerReplicate(p, "ack")
    \/ \E m \in bg : BgDeliver(m, TRUE)
    \/ \E c \in Nodes : HandlerGet(c)
    \/ \E n \in Nodes : ReadResponse(n, TRUE)

SpecAfterDelete ==
    InitAfterDelete /\ [][NextHealthy /\ nops' <= MaxReqs /\ UNCHANGED <<engineVars, isolatedVars>>]_vars

----------------------------------------------------------------------------
(* A second request served while DeleteReplicated is between Delete and GetRaw *)

\* Handler.Put of another request at the same node: the Store.Put of its
\* ReplicateWrite runs while the delete holds no lock; its sends are left to
\* the background
ConcurrentPut(data) ==
    /\ op.phase = "fetch"
    /\ nops < MaxOps
    /\ nops' = nops + 1
    /\ now' = now + 1
    /\ LET v == PutValue(op.coord, data, NilClock, now)
           peers == PeersOnly(ReplicaNodes(members[op.coord], TheKey, cfg.N), op.coord, 1)
       IN  /\ store' = [store EXCEPT ![op.coord] = v]
           /\ bg' = bg \cup { ReplicateMsg(p, v) : p \in peers }
    /\ UNCHANGED <<members, cfg, op, acked, deleted>>

NextRace ==
    \/ DeleteActions
    \/ PlainWrites
    \/ \E d \in ShortData : ConcurrentPut(d)

SpecRace == Init /\ [][NextRace /\ nops' <= MaxReqs /\ UNCHANGED <<engineVars, isolatedVars>>]_vars

----------------------------------------------------------------------------
(* Conflict resolution in isolation: reconcile and ApplyRemote over one list *)

\* responses collected by one CoordinateRead
MaxResponses == 3
\* the latest wall-clock reading carried by a Value
MaxStamp == 3

\* Values written by puts at n1 and n2 and a delete at n1, with any timestamps
ReconcileValues ==
    { [data |-> "1", clock |-> c, tombstone |-> FALSE, updatedAt |-> t] :
        c \in ArbitrationClocks, t \in 1..MaxStamp }

\* what one reader goroutine can put on the channel: a Value, a nil Value (404)
\* or an error
ReplicaResponses ==
    { Response(n, v, FALSE) : n \in ClockNodes, v \in ReconcileValues \cup {NoValue} }
        \cup { Response(n, NoValue, TRUE) : n \in ClockNodes }

InitReconcile ==
    /\ InitCluster({DefaultConfig})
    /\ op = IdleOp
    /\ bg = {}
    /\ nops = 0
    /\ acked = {}
    /\ deleted = FALSE
    /\ InitEngine
    /\ IdleClocks
    /\ IdleRings
    /\ IdleSends
    /\ IdleMain
    /\ delivered = NoDelivery
    /\ recon = NoReconcile
    /\ fan = NoFanOut
    /\ now = 0

\* CoordinateRead: responses = append(responses, resp)
Collect(r) ==
    /\ ~recon.called
    /\ ~recon.applied
    /\ Len(recon.responses) < MaxResponses
    /\ recon' = [recon EXCEPT !.responses = Append(@, r)]

\* winner, stale := reconcile(responses)
CallReconcile ==
    /\ ~recon.called
    /\ LET res == Reconcile(recon.responses)
       IN  recon' = [recon EXCEPT !.called = TRUE, !.winner = res.winner,
                                  !.staleNodes = res.staleNodes]

\* Store.ApplyRemote of the Values of responses[i..], in order, over existing
RECURSIVE ApplyRemoteAll(_, _, _)
ApplyRemoteAll(existing, responses, i) ==
    IF i > Len(responses) THEN existing
    ELSE ApplyRemoteAll(IF IsValue(responses[i].value)
                        THEN ApplyRemote(existing, responses[i].value)
                        ELSE existing,
                        responses, i + 1)

\* an empty replica receives the collected Values as replicate requests
CallApplyRemoteAll ==
    /\ ~recon.applied
    /\ recon' = [recon EXCEPT !.applied = TRUE,
                              !.stored = ApplyRemoteAll(NoValue, recon.responses, 1)]

NextReconcile ==
    \/ \E r \in ReplicaResponses : Collect(r)
    \/ CallReconcile
    \/ CallApplyRemoteAll

SpecReconcile ==
    InitReconcile /\ [][NextReconcile /\ UNCHANGED <<clusterVars, engineVars, clockVars, ringVars, sendVars, mainVars, delivered, fan, now>>]_vars

----------------------------------------------------------------------------
(* One fan-out in isolation: the wait loop, the channel and the goroutines *)

\* a faulty channel with one slot less than there are senders
ChannelCapOneShort(targets) == Cardinality(targets) - 1

\* make(chan result, len(peers)) / make(chan ReplicaResponse, len(replicas))
ChannelCap(targets) == Cardinality(targets)

InitFan ==
    /\ InitCluster({DefaultConfig})
    /\ op = IdleOp
    /\ bg = {}
    /\ nops = 0
    /\ acked = {}
    /\ deleted = FALSE
    /\ InitEngine
    /\ IdleClocks
    /\ IdleRings
    /\ IdleSends
    /\ IdleMain
    /\ delivered = NoDelivery
    /\ recon = NoReconcile
    /\ fan = NoFanOut
    /\ now = 0

\* the goroutines of a fan-out to targets
Spawn(targets) ==
    [p \in Nodes |-> [pc |-> IF p \in targets THEN "run" ELSE "none", err |-> FALSE]]

\* ReplicateWrite after its local Put: the channel, one goroutine per peer,
\* acks := 1, remaining := len(peers); with no peer the loop is skipped
FanWrite(peers, required) ==
    /\ fan.pc = "idle"
    /\ LET f == [NoFanOut EXCEPT !.kind = "write", !.task = Spawn(peers),
                                 !.cap = ChannelCap(peers), !.required = required,
                                 !.acks = 1, !.remaining = Cardinality(peers)]
       IN  fan' = IF peers = {}
                  THEN [f EXCEPT !.pc = "returned",
                                 !.ret = IF f.acks >= required THEN "ok" ELSE "quorum_not_met"]
                  ELSE [f EXCEPT !.pc = "loop"]

\* CoordinateRead: the channel and one goroutine per replica; the loop runs
\* while len(collected) < required
FanRead(replicas, required) ==
    /\ fan.pc = "idle"
    /\ LET f == [NoFanOut EXCEPT !.kind = "read", !.task = Spawn(replicas),
                                 !.cap = ChannelCap(replicas), !.required = required]
       IN  fan' = IF f.collected < required
                  THEN [f EXCEPT !.pc = "loop"]
                  ELSE [f EXCEPT !.pc = "returned", !.ret = "ok"]

\* sendReplicateRequest / fetchFromPeer / GetRaw of goroutine p returns
TaskReturns(p, ok) ==
    /\ fan.task[p].pc = "run"
    /\ fan' = [fan EXCEPT !.task[p] = [pc |-> "deliver", err |-> ~ok]]

\* results <- result{p.ID, err}: goroutine p puts its result on the channel,
\* which takes it while it holds fewer than cap elements
TaskDelivers(p) ==
    /\ fan.task[p].pc = "deliver"
    /\ Len(fan.results) < fan.cap
    /\ fan' = [fan EXCEPT !.results = Append(@, fan.task[p].err),
                          !.task[p].pc = "exited"]

\* case r := <-results of either loop
Receive ==
    /\ fan.pc = "loop"
    /\ fan.results # << >>
    /\ LET err == Head(fan.results)
           f == [fan EXCEPT !.results = Tail(@)]
       IN  IF fan.kind = "write"
           THEN LET g == [f EXCEPT !.remaining = @ - 1,
                                   !.acks = IF err THEN @ ELSE @ + 1]
                IN  fan' = IF ~err /\ g.acks >= g.required
                           THEN [g EXCEPT !.pc = "returned", !.ret = "ok"]
                           ELSE IF g.remaining > 0 THEN g
                           ELSE [g EXCEPT !.pc = "returned",
                                          !.ret = IF g.acks >= g.required THEN "ok"
                                                  ELSE "quorum_not_met"]
           ELSE LET g == [f EXCEPT !.collected = @ + 1]
                IN  fan' = IF g.collected < g.required THEN g
                           ELSE [g EXCEPT !.pc = "returned", !.ret = "ok"]

\* case <-timeout of either loop
Deadline ==
    /\ fan.pc = "loop"
    /\ fan' = [fan EXCEPT !.pc = "returned",
                          !.ret = IF fan.kind = "write" /\ fan.acks >= fan.required
                                  THEN "ok" ELSE "quorum_timeout"]

NextFan ==
    \/ \E peers \in SUBSET (Nodes \ {"n1"}), required \in 1..DefaultN : FanWrite(peers, required)
    \/ \E replicas \in SUBSET Nodes, required \in 1..DefaultN : FanRead(replicas, required)
    \/ \E p \in Nodes, ok \in BOOLEAN : TaskReturns(p, ok)
    \/ \E p \in Nodes : TaskDelivers(p)
    \/ Receive
    \/ Deadline

\* the timer of time.After fires, and the scheduler runs a goroutine whose
\* channel send can proceed; nothing makes a peer answer
FairFan ==
    /\ WF_fan(Deadline)
    /\ \A p \in Nodes : WF_fan(TaskDelivers(p))

SpecFan ==
    /\ InitFan
    /\ [][NextFan /\ UNCHANGED <<clusterVars, engineVars, clockVars, ringVars, sendVars, mainVars, delivered, recon, now>>]_vars
    /\ FairFan

----------------------------------------------------------------------------
(* The senders a returned ReplicateWrite left running *)

\* the Values the puts of one behaviour can write
WriteValues ==
    { PutValue("n1", "1", NilClock, t) : t \in 0..(MaxReqs - 1) }

\* puts served by n1 one at a time, with every outcome of their foreground sends
ForegroundWrite ==
    /\ \/ HandlerPut("n1", "1", TRUE)
       \/ \E p \in Nodes, outcome \in SendOutcomes : PeerReplicate(p, outcome)
       \/ WriteTimeout
    /\ nops' <= MaxReqs
    /\ UNCHANGED <<engineVars, isolatedVars>>

\* a sender goroutine that outlived its ReplicateWrite finishes
\* sendReplicateRequest: the peer ran ApplyRemote (ok), or every attempt failed
BackgroundSend(m, ok) ==
    /\ BgDeliver(m, ok)
    /\ delivered' = [msg |-> m, before |-> store[m.to], ok |-> ok]
    /\ UNCHANGED <<engineVars, clockVars, ringVars, sendVars, mainVars, recon, fan>>

NextBackground ==
    \/ ForegroundWrite
    \/ \E m \in bg, ok \in BOOLEAN : BackgroundSend(m, ok)

\* the scheduler runs the sender goroutines, and each of their HTTP attempts
\* ends within the client's timeout
FairBackground == WF_vars(\E m \in bg, ok \in BOOLEAN : BackgroundSend(m, ok))

SpecBackground == Init /\ [][NextBackground]_vars /\ FairBackground

----------------------------------------------------------------------------
(* Puts that may miss their quorum, and the gets that follow *)

NextFailedWrite ==
    \/ PlainWrites
    \/ ReadActions

SpecFailedWrite ==
    Init /\ [][NextFailedWrite /\ nops' <= MaxReqs /\ UNCHANGED <<engineVars, isolatedVars>>]_vars

----------------------------------------------------------------------------
(* Properties *)

\* the request in service is a read that has returned a value or not-found
ReadAnswered ==
    /\ op.kind = "get"
    /\ op.phase = "done"
    /\ op.result \in {"value", "notfound"}

\* no node's roster was changed since start-up
FullMembership == \A n \in Nodes : members[n] = NewMembership(Nodes)

\* C1: quorum correctness. With W + R > N, a read that reaches quorum after a
\* successful ReplicateWrite of v returns a Value whose clock is not Before
\* v's clock; it never returns not-found.
QuorumCorrectness ==
    (ReadAnswered /\ FullMembership /\ cfg.W + cfg.R > cfg.N) =>
        \A v \in acked :
            /\ op.result = "value"
            /\ Compare(op.winner.clock, v.clock) # Before

\* C2: WAL durability. After any sequence of returned Put / Delete calls, a crash
\* followed by store.New on the same directory yields the map those calls built.
WalDurability ==
    (opened = "open" /\ pending = NoPending) =>
        /\ New(snapFile, wal).ok
        /\ New(snapFile, wal).data = mem

\* C3: every WAL entry erased by wal.truncate is captured in the snapshot file
\* that is on disk at that moment: replaying the erased entries over the
\* snapshot would change nothing.
TruncateErasesOnlyCaptured ==
    [][(wal # << >> /\ wal' = << >>) =>
          /\ snapFile # NoFile
          /\ ApplyEntries(snapFile, wal, 1) = snapFile]_vars

\* C4: tombstone propagation. After DeleteReplicated has returned success and
\* with no write since, a read that reaches quorum reports not-found.
TombstonePropagation ==
    (ReadAnswered /\ FullMembership /\ deleted) => op.result = "notfound"

\* C5: read-repair convergence. When replica a holds a Value whose clock is
\* After the one replica b holds, every node is reachable and nobody writes,
\* repeated reads lead to both holding a's Value.
ReadRepairConvergence ==
    \A a \in Nodes, b \in Nodes : \A va \in RepairValues :
        (/\ store[a] = va
         /\ IsValue(store[b])
         /\ Compare(va.clock, store[b].clock) = After)
        ~> (store[a] = va /\ store[b] = va)

\* C6: with N=3, W=2, R=2, a replica that holds no entry for the key because it
\* missed a Put of v that W replicas acknowledged holds v eventually after a
\* Get returned v.
ReadRepairHeals ==
    \A n \in Nodes : \A v \in RepairValues :
        (/\ cfg = [N |-> 3, W |-> 2, R |-> 2]
         /\ ~IsValue(store[n])
         /\ Cardinality({ m \in Nodes : store[m] = v }) >= cfg.W
         /\ op.kind = "get" /\ op.phase = "done" /\ op.result = "value"
         /\ op.winner = v)
        ~> (store[n] = v)

\* C7: on the originating node a client Put or Delete stores a Value whose clock
\* compares After the clock of the Value it replaces, when that Value was
\* itself written through this node.
LocalClocksIncrease ==
    [][\A c \in Nodes :
          (/\ nops' = nops + 1
           /\ op'.kind \in {"put", "del"}
           /\ op'.coord = c
           /\ op'.result # "local_error"
           /\ IsValue(store[c])
           /\ DOMAIN store[c].clock = {c})
          => Compare(store'[c].clock, store[c].clock) = After]_vars

\* C8: ReplicateWrite returns success exactly when the local put succeeded and
\* 1 + the number of peers whose replicate call succeeded is at least W; the
\* local failure is reported as such, and fewer than W acknowledgments after
\* every peer answered or at the deadline give a quorum error.
WriteQuorumOutcome ==
    (op.kind = "put" /\ op.phase = "done") =>
        /\ op.result \in {"ok", "local_error", "quorum_not_met", "quorum_timeout"}
        /\ op.result = "ok" <=>
               (op.made # NoValue /\ 1 + Cardinality(op.ackedPeers) >= cfg.W)
        /\ op.result = "local_error" <=> op.made = NoValue
        /\ op.result \in {"quorum_not_met", "quorum_timeout"} <=>
               (op.made # NoValue /\ 1 + Cardinality(op.ackedPeers) < cfg.W)

\* N=3, W=2: a put succeeded with one peer acknowledging and another failing
WriteMasksPeerFailure ==
    /\ op.kind = "put" /\ op.phase = "done" /\ op.result = "ok"
    /\ cfg.N = 3 /\ cfg.W = 2
    /\ Cardinality(op.ackedPeers) = 1
    /\ op.errs # {}

\* C9: when the responses CoordinateRead collected are transport errors it
\* reports an error, never not-found (nor a value).
ErrorsAreNotNotFound ==
    (/\ op.kind = "get" /\ op.phase = "done"
     /\ Len(op.collected) > 0
     /\ \A i \in 1..Len(op.collected) : op.collected[i].err)
    => op.result \notin {"notfound", "value"}

\* C10: CoordinateRead answers with a value or not-found only once R responses
\* were collected; with fewer than R at the deadline it fails with the
\* read-quorum-timeout error.
ReadQuorumOutcome ==
    (op.kind = "get" /\ op.phase = "done") =>
        /\ op.result \in {"value", "notfound"} => Len(op.collected) >= cfg.R
        /\ Len(op.collected) < cfg.R => op.result = "read_timeout"

\* nodes left, the key's replica set is smaller than R, every replica answered
\* and the read still failed at the deadline
ReadTimeoutOnSmallReplicaSet ==
    /\ op.kind = "get" /\ op.phase = "done" /\ op.result = "read_timeout"
    /\ Len(ReplicaNodes(members[op.coord], TheKey, cfg.N)) < cfg.R
    /\ Len(op.collected) = Len(ReplicaNodes(members[op.coord], TheKey, cfg.N))

\* the peers a request has sent to: answered with success, answered with an
\* error, or not answered yet
SentTo(o) == o.waiting \cup o.ackedPeers \cup o.errs

SnapshotOrdering ==
    [][\A t \in Snapshotters :
          /\ Len(wal') < Len(wal) =>
                \E u \in Snapshotters : snapPc[u] = "truncate" /\ snapRet'[u] = "ok"
          /\ (snapPc'[t] = "truncate" /\ snapPc[t] # "truncate") =>
                /\ snapPc[t] = "rename"
                /\ tmpFile # NoFile
                /\ snapFile' = tmpFile
                /\ wal' = wal
          /\ (snapRet'[t] = "error" /\ snapRet[t] # "error") =>
                /\ snapPc[t] \in {"create", "rename"}
                /\ snapPc'[t] = "idle"
                /\ wal' = wal
                /\ mem' = mem
                /\ snapFile' = snapFile]_vars

\* a Snapshot call failed at the rename while the WAL held entries, and they
\* are still there
SnapshotFailedWalKept ==
    \E t \in Snapshotters :
        /\ snapRet[t] = "error"
        /\ snapPc[t] = "idle"
        /\ tmpFile = NoFile
        /\ snapFile # NoFile
        /\ wal # << >>
        /\ New(snapFile, wal).data = mem
        /\ mem # EmptyMap

\* C13: a Snapshot that runs with no concurrent mutation and succeeds leaves
\* the WAL empty, and at every later point (between the rename and the
\* truncate as well) store.New on the data directory opens and yields the map
\* the returned calls built: the snapshot overlaid with the WAL entries.
SnapshotRecovery ==
    [][/\ \A t \in Snapshotters :
              (snapRet'[t] = "ok" /\ snapRet[t] # "ok") => wal' = << >>
       /\ (opened' = "open" /\ pending' = NoPending) =>
              /\ New(snapFile', wal').ok
              /\ New(snapFile', wal').data = mem']_vars

\* C14: when the WAL append fails inside Put, Delete or ApplyRemote the call
\* returns the error and the map is unchanged, then and afterwards; a call that
\* returns success has appended its entry before the map is assigned.
WalErrorLeavesMap ==
    [][/\ call'.name # "none" /\ call'.result = "wal_error" =>
              /\ mem' = mem
              /\ wal' = wal
              /\ pending' = NoPending
       /\ (nmut' = nmut + 1 /\ call'.result = "ok") =>
              /\ wal' = Append(wal, pending')
              /\ pending'.key = call'.key /\ pending'.value = call'.value
              /\ mem' = mem]_vars

\* an ApplyRemote that would have replaced the stored Value failed at the
\* append, and the key still holds the previous Value
ApplyRemoteFailedAtAppend ==
    /\ call.name = "ApplyRemote"
    /\ call.result = "wal_error"
    /\ IsValue(mem[call.key])
    /\ mem[call.key] # call.value
    /\ ApplyRemoteAccepts(mem[call.key], call.value)
    /\ \A i \in 1..Len(wal) : wal[i].value # call.value

\* C15: ApplyRemote(key, incoming) accepts when the key has no Value, discards
\* when incoming.clock is Before the existing clock (applied = false, no WAL
\* entry, map unchanged), and accepts when it is After or Equal: the entry is
\* appended to the WAL first and the map assigned next.
ApplyRemoteArbitration ==
    [][/\ (nmut' = nmut + 1 /\ call'.name = "ApplyRemote") =>
              LET existing == mem[call'.key]
                  incoming == call'.value
                  rel == Compare(incoming.clock, existing.clock)
              IN  /\ ~IsValue(existing) => call'.result # "discarded"
                  /\ (IsValue(existing) /\ rel = Before) => call'.result = "discarded"
                  /\ (IsValue(existing) /\ rel \in {After, Equal}) =>
                         call'.result # "discarded"
                  /\ call'.result = "discarded" =>
                         (wal' = wal /\ mem' = mem /\ pending' = NoPending)
                  /\ call'.result = "ok" =>
                         /\ wal' = Append(wal, WalEntry("PUT", call'.key, incoming))
                         /\ pending' = WalEntry("PUT", call'.key, incoming)
                         /\ mem' = mem
       /\ (call.name = "ApplyRemote" /\ call' = call /\ pending # NoPending
              /\ pending' = NoPending) =>
              mem' = [mem EXCEPT ![call.key] = call.value]]_vars

\* an incoming Value whose clock is Before the stored one was discarded
ApplyRemoteDiscardedOlder ==
    /\ call.name = "ApplyRemote"
    /\ call.result = "discarded"
    /\ IsValue(mem[call.key])
    /\ Compare(call.value.clock, mem[call.key].clock) = Before
    /\ \A i \in 1..Len(wal) : wal[i].value # call.value

\* C16: with Concurrent clocks ApplyRemote keeps the Value with the later
\* updatedAt, and keeps the existing Value when the two updatedAt are equal:
\* incoming is discarded exactly when it is not later than the existing one.
ConcurrentTiebreak ==
    [][(/\ nmut' = nmut + 1
        /\ call'.name = "ApplyRemote"
        /\ IsValue(mem[call'.key])
        /\ Compare(call'.value.clock, mem[call'.key].clock) = ConcurrentClocks)
       => (call'.result = "discarded" <=>
              call'.value.updatedAt <= mem[call'.key].updatedAt)]_vars

\* C17: when the two responses a read collected carry Values with Concurrent
\* clocks, reconcile picks the one with the later updatedAt and puts the node
\* of the other in the stale list, whichever of the two arrived first.
ConcurrentReconcile ==
    (/\ op.kind = "get" /\ op.phase = "done"
     /\ Len(op.collected) = 2
     /\ \A i \in 1..2 : ~op.collected[i].err /\ IsValue(op.collected[i].value)
     /\ Compare(op.collected[1].value.clock, op.collected[2].value.clock) = ConcurrentClocks
     /\ op.collected[1].value.updatedAt # op.collected[2].value.updatedAt)
    => LET rec == Reconcile(op.collected)
           later == IF op.collected[1].value.updatedAt > op.collected[2].value.updatedAt
                    THEN 1 ELSE 2
       IN  /\ rec.winner = op.collected[later].value
           /\ op.winner = rec.winner
           /\ \E j \in 1..Len(rec.staleNodes) :
                  rec.staleNodes[j] = op.collected[3 - later].nodeID

\* C18: whenever main proceeds past start-up, the parameters it hands to the
\* Replicator after capping to the node count satisfy W + R > N.
StartupQuorumInvariant ==
    cfg.stage = "running" => cfg.W + cfg.R > cfg.N

\* the reference classification of two clocks, an absent id counting as 0
ReferenceRelation(a, b) ==
    LET aLarger == \E n \in ClockNodes : ClockGet(a, n) > ClockGet(b, n)
        bLarger == \E n \in ClockNodes : ClockGet(b, n) > ClockGet(a, n)
    IN  CASE ~aLarger /\ ~bLarger -> Equal
          [] aLarger /\ ~bLarger -> After
          [] ~aLarger /\ bLarger -> Before
          [] OTHER -> ConcurrentClocks

\* C19: VectorClock.Compare(a, b) is the reference classification for all
\* clocks, explicit zero entries included; compare(a, a) = Equal, and
\* compare(a, b) = Before exactly when compare(b, a) = After.
CompareMatchesReference ==
    /\ vcRes.fn = "Compare" => vcRes.out = ReferenceRelation(vcRes.a, vcRes.b)
    /\ Compare(vcA, vcB) = ReferenceRelation(vcA, vcB)
    /\ Compare(vcA, vcA) = Equal
    /\ Compare(vcA, vcB) = Before <=> Compare(vcB, vcA) = After

\* Compare was called on a clock with an explicit zero entry for a node the
\* other clock lacks, the other holding a positive counter the first lacks
ComparedWithExplicitZero ==
    /\ vcRes.fn = "Compare"
    /\ \E n \in DOMAIN vcRes.a : vcRes.a[n] = 0 /\ n \notin DOMAIN vcRes.b
    /\ \E n \in DOMAIN vcRes.b : vcRes.b[n] > 0 /\ n \notin DOMAIN vcRes.a
    /\ vcRes.out = Before

\* C20: VectorClock.Merge(a, b) returns the per-key maximum as a new clock and
\* leaves a and b as they were; compare(a, merge(a, b)) and
\* compare(b, merge(a, b)) are each Equal or Before.
MergeIsUpperBound ==
    [][vcRes'.fn = "Merge" /\ vcRes' # vcRes =>
        LET a == vcRes'.a
            b == vcRes'.b
            m == vcRes'.out
        IN  /\ a = vcA /\ b = vcB
            /\ vcA' = vcA /\ vcB' = vcB
            /\ \A n \in ClockNodes :
                    ClockGet(m, n) = IF ClockGet(a, n) >= ClockGet(b, n)
                                     THEN ClockGet(a, n) ELSE ClockGet(b, n)
            /\ DOMAIN m \subseteq (DOMAIN a) \cup (DOMAIN b)
            /\ Compare(a, m) \in {Equal, Before}
            /\ Compare(b, m) \in {Equal, Before}]_vars

\* Merge was called on two concurrent clocks: the result is strictly after
\* both, and both are still what they were
MergedConcurrentClocks ==
    /\ vcRes.fn = "Merge"
    /\ Compare(vcRes.a, vcRes.b) = ConcurrentClocks
    /\ Compare(vcRes.a, vcRes.out) = Before
    /\ Compare(vcRes.b, vcRes.out) = Before
    /\ vcA = vcRes.a
    /\ vcB = vcRes.b

\* C21: Increment(nodeId) raises that node's counter by exactly 1, creating it
\* at 1 when absent, and leaves every other entry as it was; the incremented
\* clock compares After the clock before the increment.
IncrementAdvances ==
    vcRes.fn = "Increment" =>
        LET before == vcRes.a
            after == vcRes.out
            id == vcRes.node
        IN  /\ vcA = after
            /\ DOMAIN after = (DOMAIN before) \cup {id}
            /\ after[id] = ClockGet(before, id) + 1
            /\ \A n \in DOMAIN after : n # id => n \in DOMAIN before /\ after[n] = before[n]
            /\ Compare(after, before) = After
            /\ Compare(before, after) = Before

\* Increment created the counter of a node the clock did not have, next to
\* another node's entry
IncrementCreatedEntry ==
    /\ vcRes.fn = "Increment"
    /\ vcRes.node \notin DOMAIN vcRes.a
    /\ vcRes.a # EmptyClock
    /\ vcRes.out[vcRes.node] = 1

\* the size of the hash space of the table
HashSpace == 100

\* how far clockwise position p lies from hash h
ClockwiseDistance(p, h) == (p - h + HashSpace) % HashSpace

\* the clockwise distance from h of the nearest position that id owns
FirstDistance(ring, id, h) ==
    LET ds == { ClockwiseDistance(p, h) : p \in { q \in DOMAIN ring : ring[q] = id } }
    IN  CHOOSE d \in ds : \A e \in ds : d <= e

\* the node ids that own a position of the ring
Owners(ring) == { ring[p] : p \in DOMAIN ring }

\* nodes is what a clockwise walk from hash(key) yields: distinct owners,
\* min(n, owners) of them, nearest first, none nearer left out
IsClockwiseWalk(ring, key, n, nodes) ==
    LET h == HashKey(key)
    IN  /\ Len(nodes) = Min(n, Cardinality(Owners(ring)))
        /\ \A i \in 1..Len(nodes) : nodes[i] \in Owners(ring)
        /\ \A i \in 1..Len(nodes) : \A j \in 1..Len(nodes) :
              i < j => FirstDistance(ring, nodes[i], h) < FirstDistance(ring, nodes[j], h)
        /\ \A id \in Owners(ring) :
              (\A i \in 1..Len(nodes) : nodes[i] # id) =>
                  \A i \in 1..Len(nodes) :
                      FirstDistance(ring, nodes[i], h) < FirstDistance(ring, id, h)

\* C22: Ring.GetNodes(key, n) returns distinct node ids, min(n, distinct nodes
\* on the ring) of them; the first owns the least position >= hash(key), or the
\* smallest position when there is none, and the next distinct owners follow
\* clockwise; on an empty ring the result is empty.
GetNodesWalksClockwise ==
    /\ \A key \in RingKeys : \A n \in 0..MaxWant :
          IsClockwiseWalk(ringA, key, n, GetNodes(ringA, key, n))
    /\ ringRes.fn = "GetNodes" /\ ringA = EmptyRing => ringRes.out = << >>
    /\ ringRes.fn = "GetNodes" => IsClockwiseWalk(ringA, ringRes.key, ringRes.n, ringRes.out)

\* GetNodes wrapped past the largest position and skipped a second position
\* of a node it had already collected
GetNodesWrapped ==
    /\ ringRes.fn = "GetNodes"
    /\ \A p \in DOMAIN ringA : p < HashKey(ringRes.key)
    /\ Len(ringRes.out) = 3
    /\ ringRes.n = 3
    /\ Cardinality(DOMAIN ringA) > 4

\* C23: GetNodes(key, n) depends only on the current set of node ids, V and
\* the hash function: two rings that reached the same node set through
\* different sequences of AddNode / RemoveNode calls return the same result
\* for every key and n.
RingDeterminism ==
    onA = onB =>
        \A key \in RingKeys : \A n \in 0..MaxWant :
            GetNodes(ringA, key, n) = GetNodes(ringB, key, n)

\* the ids of a GetNodes result
ReplicaSet(ring, key, n) == SeqToSet(GetNodes(ring, key, n))

\* C24: adding a node D changes a key's primary only to D and a key's replica
\* set only by inserting D; removing a node X changes the primary only for
\* keys whose primary was X, and leaves every replica set that did not contain
\* X unchanged.
MinimalRemapping ==
    /\ ringRes.fn = "AddNode" /\ ringRes.id \notin ringRes.on =>
          \A key \in RingKeys :
              /\ GetNodes(ringA, key, 1) # GetNodes(ringRes.ring, key, 1) =>
                    GetNodes(ringA, key, 1) = <<ringRes.id>>
              /\ \A n \in 0..MaxWant :
                    ReplicaSet(ringA, key, n) # ReplicaSet(ringRes.ring, key, n) =>
                        /\ ringRes.id \in ReplicaSet(ringA, key, n)
                        /\ ReplicaSet(ringA, key, n) \ {ringRes.id}
                              \subseteq ReplicaSet(ringRes.ring, key, n)
    /\ ringRes.fn = "RemoveNode" /\ ringRes.id \in ringRes.on =>
          \A key \in RingKeys :
              /\ GetNodes(ringA, key, 1) # GetNodes(ringRes.ring, key, 1) =>
                    GetNodes(ringRes.ring, key, 1) = <<ringRes.id>>
              /\ \A n \in 0..MaxWant :
                    ringRes.id \notin ReplicaSet(ringRes.ring, key, n) =>
                        ReplicaSet(ringA, key, n) = ReplicaSet(ringRes.ring, key, n)

\* C25: Membership.Join(node) fails when node.id is already in the roster and
\* Membership.Leave(id) fails when id is absent, and a failed call leaves
\* roster and ring as they were; a successful Join adds the id to the roster,
\* marked alive, and to the ring, and a successful Leave removes it from both.
JoinLeaveContract ==
    /\ ringRes.fn = "Join" =>
          /\ ringRes.err <=> ringRes.id \in DOMAIN ringRes.roster
          /\ ringRes.err => rosterA = ringRes.roster /\ ringA = ringRes.ring
          /\ ~ringRes.err =>
                /\ DOMAIN rosterA = (DOMAIN ringRes.roster) \cup {ringRes.id}
                /\ rosterA[ringRes.id].isAlive
                /\ ringRes.id \in Owners(ringA)
    /\ ringRes.fn = "Leave" =>
          /\ ringRes.err <=> ringRes.id \notin DOMAIN ringRes.roster
          /\ ringRes.err => rosterA = ringRes.roster /\ ringA = ringRes.ring
          /\ ~ringRes.err =>
                /\ DOMAIN rosterA = (DOMAIN ringRes.roster) \ {ringRes.id}
                /\ ringRes.id \notin Owners(ringA)

\* a Leave succeeded on a roster of several nodes and took the node off the
\* ring
LeaveSucceeded ==
    /\ ringRes.fn = "Leave"
    /\ ~ringRes.err
    /\ Cardinality(DOMAIN ringRes.roster) >= 3
    /\ ringRes.id \in Owners(ringRes.ring)

FinalSnapshotComplete ==
    mainPc = "exited" /\ snapRet["shutdown"] = "ok" => snapFile = mem

\* C28: right after a peer's replicate handler answers success for (key, v),
\* the peer's stored Value for key is v itself or a Value that v lost to under
\* ApplyRemote's arbitration, so its clock is never Before v.clock; the
\* handler answers failure when the WAL append failed.
AckMeansAtLeastAsNew ==
    (call.name = "ApplyRemote" /\ pending = NoPending) =>
        LET v == call.value
            stored == mem[call.key]
            status == ReplicateStatus(call.result)
        IN  /\ status = "204" =>
                  /\ IsValue(stored)
                  /\ stored = v \/ (stored # v /\ ~ApplyRemoteAccepts(stored, v))
                  /\ Compare(stored.clock, v.clock) # Before
            /\ call.result = "wal_error" => status = "500"
            /\ status = "500" => call.result = "wal_error"

\* the handler answered success for a Value that lost the tie-break to a
\* concurrent stored Value
AckedDiscardedConcurrent ==
    /\ call.name = "ApplyRemote"
    /\ pending = NoPending
    /\ ReplicateStatus(call.result) = "204"
    /\ call.result = "discarded"
    /\ Compare(mem[call.key].clock, call.value.clock) = ConcurrentClocks

\* C29: read repair never regresses a replica: when a write whose clock is
\* After the repair value's clock has landed on the replica before the repair
\* send arrives, ApplyRemote discards the repair and the replica keeps the
\* fresher Value.
RepairNeverRegresses ==
    [][(/\ delivered' # delivered
        /\ IsValue(delivered'.before)
        /\ Compare(delivered'.before.clock, delivered'.msg.value.clock) = After)
       => /\ delivered'.before = store[delivered'.msg.to]
          /\ store'[delivered'.msg.to] = store[delivered'.msg.to]]_vars

\* a repair send arrived at a replica that a fresher write had reached first,
\* and the replica still holds the fresher Value
RepairArrivedLate ==
    /\ delivered # NoDelivery
    /\ IsValue(delivered.before)
    /\ Compare(delivered.before.clock, delivered.msg.value.clock) = After
    /\ store[delivered.msg.to] = delivered.before

\* C30: whenever ReplicateWrite returns success, at least W distinct nodes
\* among the N replica nodes the ring assigns to the key have stored or
\* acknowledged the written Value, also when the coordinating node is not one
\* of the key's replicas.
WriteQuorumCountsReplicas ==
    [][(op' # op /\ op'.kind = "put" /\ op'.phase = "done" /\ op'.result = "ok") =>
          LET replicas == SeqToSet(ReplicaNodes(members[op'.coord], TheKey, cfg.N))
              holders == { n \in replicas : store'[n] = op'.val \/ n \in op'.ackedPeers }
          IN  Cardinality(holders) >= cfg.W]_vars

\* C31: a write after a delete is visible. In a failure-free cluster, after
\* Delete(k) succeeded and Put(k, v) then succeeded through the same
\* coordinator, every replica that acknowledged the Put stores v, and a quorum
\* Get(k) that follows returns v, not not-found.
WriteAfterDeleteVisible ==
    /\ (op.kind = "put" /\ op.phase = "done" /\ op.result = "ok"
            /\ nops = 1 /\ op.coord = "n1") =>
          \A p \in op.ackedPeers : store[p] = op.val
    /\ (ReadAnswered /\ nops = 2) =>
          \A v \in acked : DOMAIN v.clock = {"n1"} =>
              (op.result = "value" /\ op.winner = v)


\* C32: the Value DeleteReplicated fans out to the peers is the tombstone its
\* own Store.Delete created, whatever Put or ApplyRemote runs at the
\* coordinator meanwhile.
DeleteFansOutOwnTombstone ==
    (op.kind = "del" /\ op.phase \in {"run", "done"} /\ op.result # "local_error") =>
        op.val = op.made


\* the orders in which the responses of a list can arrive
Arrivals(responses) ==
    LET n == Len(responses)
        orders == { f \in [1..n -> 1..n] : \A i, j \in 1..n : i # j => f[i] # f[j] }
    IN  { [i \in 1..n |-> responses[f[i]]] : f \in orders }

\* C33: reconcile selects the newest value. For every list of collected
\* responses the winner's clock is not Before the clock of any candidate of
\* the list that is neither nil nor an error.
ReconcileSelectsNewest ==
    recon.called =>
        \A i \in 1..Len(recon.responses) :
            LET r == recon.responses[i]
            IN  (~r.err /\ IsValue(r.value)) =>
                    /\ IsValue(recon.winner)
                    /\ Compare(recon.winner.clock, r.value.clock) # Before

\* C34: conflict resolution is deterministic. For a fixed set of responses
\* reconcile returns the same winner whatever the arrival order, and applying
\* the same Values through ApplyRemote in any order leaves the same stored Value.
ResolutionIsOrderFree ==
    /\ recon.called =>
          \A rs \in Arrivals(recon.responses) : Reconcile(rs).winner = recon.winner
    /\ recon.applied =>
          \A rs \in Arrivals(recon.responses) : ApplyRemoteAll(NoValue, rs, 1) = recon.stored


\* C35: the clock identifies the content. In every reachable cluster state, two
\* replicas that store Values whose vector clocks compare Equal store the same
\* data and the same tombstone flag.
ClockIdentifiesContent ==
    \A a, b \in Nodes :
        (IsValue(store[a]) /\ IsValue(store[b])
            /\ Compare(store[a].clock, store[b].clock) = Equal) =>
                /\ store[a].data = store[b].data
                /\ store[a].tombstone = store[b].tombstone


\* C36: every ReplicateWrite and CoordinateRead call eventually returns, also
\* when some or all peers never answer, and a goroutine that holds its result
\* eventually puts it on the channel and exits, also after the caller returned.
FanOutTerminates ==
    /\ (fan.pc = "loop") ~> (fan.pc = "returned")
    /\ \A p \in Nodes : (fan.task[p].pc = "deliver") ~> (fan.task[p].pc = "exited")

\* a write returned on its deadline with no result received while one peer had
\* not answered; another goroutine delivered its result after the return
DeliveredAfterDeadline ==
    /\ fan.kind = "write"
    /\ fan.pc = "returned"
    /\ fan.ret = "quorum_timeout"
    /\ fan.remaining = 2
    /\ \E p, q \in Nodes : fan.task[p].pc = "exited" /\ fan.task[q].pc = "run"
    /\ Len(fan.results) = 1


\* peer p ran ApplyRemote on v: it holds v, or what it holds made ApplyRemote
\* discard v
Applied(p, v) == store[p] = v \/ ~ApplyRemoteAccepts(store[p], v)

\* the send of v to p has finished: p applied v, or the send failed
Settled(p, v) ==
    \/ Applied(p, v)
    \/ delivered # NoDelivery /\ delivered.msg = ReplicateMsg(p, v) /\ ~delivered.ok

\* C37: after ReplicateWrite returned success at quorum, the sends to the
\* remaining peers continue in the background: the returning step leaves a
\* sender running for every peer that had not answered, every such peer that
\* stays reachable eventually applies the written Value through ApplyRemote,
\* and no background send, failed or not, changes the result already returned.
BackgroundSendsContinue ==
    /\ [][(op.kind = "put" /\ op.phase = "run" /\ op'.phase = "done" /\ op'.result = "ok") =>
            \A q \in op.waiting :
                q \in op'.ackedPeers \cup op'.errs \/ ReplicateMsg(q, op.val) \in bg']_vars
    /\ \A p \in Nodes : \A v \in WriteValues :
          (op.kind = "put" /\ op.phase = "done" /\ op.result = "ok" /\ op.val = v
              /\ ReplicateMsg(p, v) \in bg) ~> Settled(p, v)
    /\ [][delivered' # delivered => op' = op]_vars

\* a put returned success and a background send of its Value was applied by a
\* peer that held something else before
AppliedInBackground ==
    /\ op.kind = "put"
    /\ op.phase = "done"
    /\ op.result = "ok"
    /\ delivered # NoDelivery
    /\ delivered.ok
    /\ delivered.msg.value = op.val
    /\ delivered.before # op.val
    /\ store[delivered.msg.to] = op.val


QuorumErrors == {"quorum_not_met", "quorum_timeout"}

\* C39: a write that failed its quorum is not rolled back. The local Store.Put
\* of ReplicateWrite stores the Value at the coordinator, and the step that
\* returns quorum-not-met or quorum-timeout leaves the coordinator's entry and
\* every peer's entry in place (a peer changes in that step only by applying
\* the Value), so a later read may return it.
FailedWriteStays ==
    /\ [][(op.phase = "done" /\ op'.kind = "put" /\ op'.phase = "run") =>
            store'[op'.coord] = op'.made]_vars
    /\ [][(op.kind = "put" /\ op.phase = "run" /\ op'.phase = "done"
              /\ op'.result \in QuorumErrors) =>
            /\ store'[op.coord] = store[op.coord]
            /\ \A p \in Nodes :
                  store'[p] = store[p] \/ store'[p] = ApplyRemote(store[p], op.val)]_vars

\* a get returned a Value that no successful ReplicateWrite ever returned: the
\* Value of a put that missed its quorum
ReadReturnedFailedWrite ==
    /\ op.kind = "get"
    /\ op.phase = "done"
    /\ op.result = "value"
    /\ IsValue(op.winner)
    /\ op.winner \notin acked


\* C40: ring position ownership is preserved. After any sequence of AddNode /
\* RemoveNode calls, sorted is the ascending duplicate-free list of the keys
\* of ring, every node in the ring owns all V of its virtual positions, and
\* RemoveNode(id) deleted only positions that id owned, also when two nodes'
\* virtual positions collide.
RingOwnership ==
    /\ LET sorted == Sorted(ringA)
       IN  /\ SeqToSet(sorted) = DOMAIN ringA
           /\ \A i, j \in 1..Len(sorted) : i < j => sorted[i] < sorted[j]
    /\ \A id \in onA : \A i \in 0..(VNodes - 1) :
          /\ HashVNode(id, i) \in DOMAIN ringA
          /\ ringA[HashVNode(id, i)] = id
    /\ ringRes.fn = "RemoveNode" =>
          \A pos \in (DOMAIN ringRes.ring) \ (DOMAIN ringA) : ringRes.ring[pos] = ringRes.id

====
